---- MODULE Spec2Model ----
(***************************************************************************)
(* Model of the check execution and aggregation engine of the data-quality *)
(* framework: the threshold evaluator and the per-column shell of a check  *)
(* (checks/base.py and the check variants), and the check manager          *)
(* (managers/check_manager.py) in its sequential and its worker-pool mode. *)
(*                                                                         *)
(* Python's None is modelled by the empty set and a present value x by the *)
(* singleton {x}, so an optional field is a set of at most one element.    *)
(***************************************************************************)
EXTENDS Integers, Sequences, FiniteSets, TLC

VARIABLES
    ev,             \* one call of BaseCheck._evaluate_threshold: arguments and result
    chk,            \* one check instance: constructor arguments, normalised state, run() outcome
    df,             \* CheckManager.df (the caller's dataset), shared by both managers
    checks_config,  \* CheckManager.checks_config: ordered mapping check type -> type configuration
    max_workers,    \* argument of run_all_checks_parallel
    check_results,  \* check_results[m]: CheckManager.check_results of manager m
    pc,             \* pc[m]: position of the calling thread of manager m
    idx,            \* idx[m]: loop position of the calling thread (types handled / submitted)
    fut,            \* fut[i]: state of the future of the i-th configured type (parallel run)
    outcome,        \* outcome[m][i]: what run_single_check gave for type i (set of at most one)
    appended,       \* appended[m][i]: the records the manager added on behalf of type i
    starts,         \* starts[m][i]: how many times run_single_check was started for type i
    returned,       \* returned[m]: the AggregatedResults the call returned (set of at most one)
    writer,         \* the thread that made the last change to check_results["par"]
    stats,          \* one call of a reporting method on a given accumulated list
    mgr,            \* one manager object over a sequence of calls of its methods
    uq,             \* one computation of the uniqueness metric of a column
    cc,             \* one correlation check: constructor arguments and run() outcome
    call,           \* one call of _check_column of a check variant on one column
    rwb             \* one call of DataConnector.retry_with_backoff

vars == <<ev, chk, df, checks_config, max_workers, check_results, pc, idx, fut,
          outcome, appended, starts, returned, writer, stats, mgr, uq, cc, call, rwb>>

(***************************************************************************)
(* Bounds of the model.                                                    *)
(***************************************************************************)
MaxVal == 3       \* measured values range over -MaxVal..MaxVal
MaxThr == 2       \* threshold levels range over 0..MaxThr
MaxCols == 2      \* configured columns of one check type (check-level specification)
MaxWorkers == 2   \* max_workers ranges over 1..MaxWorkers
MaxRecs == 3      \* length of an accumulated list given to a reporting method
MaxRows == 4      \* rows of a column whose uniqueness metric is computed
MaxDates == 3     \* distinct dates of the dataset of a drift check
MaxMeasures == 2  \* entries of the measures option of a statistical check
MaxAttempts == 3  \* max_attempts of one retry_with_backoff call ranges over 0..MaxAttempts
MaxBackoff == 3   \* backoff_factor of one retry_with_backoff call ranges over 1..MaxBackoff
MaxRuns == 2      \* calls of run_all_checks / run_all_checks_parallel on one manager

Vals == (0 - MaxVal)..MaxVal
ThrVals == 0..MaxThr

None == {}
Some(x) == {x}
IsNone(o) == o = {}
TheValue(o) == CHOOSE x \in o : TRUE

\* dict.get(key): None when the key is absent
Get(d, k) == IF k \in DOMAIN d THEN Some(d[k]) ELSE None

Abs(x) == IF x < 0 THEN 0 - x ELSE x

(***************************************************************************)
(* utils/constants.py                                                      *)
(***************************************************************************)
CheckStatus == {"PASS", "WARNING", "FAIL", "ERROR"}
Severity == {"INFO", "WARNING", "CRITICAL", "ERROR"}

(***************************************************************************)
(* BaseCheck._evaluate_threshold                                           *)
(***************************************************************************)
ThresholdKeys == {"absolute_critical", "absolute_warning", "delta_critical", "delta_warning"}
ThresholdTypes == {"absolute", "delta"}

\* f"{threshold_type}_critical", f"{threshold_type}_warning"
CriticalKey(threshold_type) ==
    IF threshold_type = "delta" THEN "delta_critical" ELSE "absolute_critical"
WarningKey(threshold_type) ==
    IF threshold_type = "delta" THEN "delta_warning" ELSE "absolute_warning"

\* faulty variant: an absent level is read as a threshold of 0
Lookup_DefaultZero(thresholds, key) ==
    IF key \in DOMAIN thresholds THEN Some(thresholds[key]) ELSE Some(0)

\* thresholds.get(key)
Lookup(thresholds, key) == Get(thresholds, key)

\* faulty variant: the comparison with the critical level is not strict
ExceedsCritical_NonStrict(compare_value, critical) ==
    /\ ~IsNone(critical)
    /\ compare_value >= TheValue(critical)

\* critical is not None and compare_value > critical
ExceedsCritical(compare_value, critical) ==
    /\ ~IsNone(critical)
    /\ compare_value > TheValue(critical)

\* warning is not None and compare_value > warning
ExceedsWarning(compare_value, warning) ==
    /\ ~IsNone(warning)
    /\ compare_value > TheValue(warning)

\* compare_value = abs(value) if threshold_type == "delta" else value
CompareValue(value, threshold_type) ==
    IF threshold_type = "delta" THEN Abs(value) ELSE value

_evaluate_threshold(value, thresholds, threshold_type) ==
    LET critical == Lookup(thresholds, CriticalKey(threshold_type))
        warning == Lookup(thresholds, WarningKey(threshold_type))
        compare_value == CompareValue(value, threshold_type)
    IN  IF ExceedsCritical(compare_value, critical)
        THEN [status |-> "FAIL", severity |-> "CRITICAL", exceeded_threshold |-> critical]
        ELSE IF ExceedsWarning(compare_value, warning)
        THEN [status |-> "WARNING", severity |-> "WARNING", exceeded_threshold |-> warning]
        ELSE [status |-> "PASS", severity |-> "INFO", exceeded_threshold |-> None]

(***************************************************************************)
(* Python values.  A value that may or may not be a dict carries is_dict;  *)
(* the dict itself is v: the sequence of its items in insertion order for  *)
(* an ordered mapping, a function on its keys for a column configuration.  *)
(***************************************************************************)
PyNone == [is_dict |-> FALSE, v |-> <<>>]
Dict(v) == [is_dict |-> TRUE, v |-> v]
Item(k, v) == [key |-> k, value |-> v]

Keys(items) == {items[i].key : i \in 1..Len(items)}
IndexOf(items, k) == CHOOSE i \in 1..Len(items) : items[i].key = k
\* d[k] = v on an ordered dict: a present key keeps its place, a new key goes last
DictSet(items, k, v) ==
    IF k \in Keys(items)
    THEN [items EXCEPT ![IndexOf(items, k)] = Item(k, v)]
    ELSE Append(items, Item(k, v))
\* d.get(k) on an ordered dict
DictGet(items, k) == IF k \in Keys(items) THEN Some(items[IndexOf(items, k)].value) ELSE None

\* str.lower() on the column labels of the model
Lower(s) ==
    CASE s = "Value" -> "value"
      [] s = "Date" -> "date"
      [] s = "Id" -> "id"
      [] s = "Price" -> "price"
      [] s = "Qty" -> "qty"
      [] OTHER -> s

(***************************************************************************)
(* The dataset.  A frame is the list of its column labels and, for each    *)
(* label, what the check variant measures on that column over all rows     *)
(* (plain) and over the rows a valid filter keeps (filtered).              *)
(***************************************************************************)
ValidFilter == "value > 0"
InvalidFilter == "invalid syntax !!!"

\* df.copy(); df.columns = df.columns.str.lower()
_normalize_dataframe(frame) ==
    [frame EXCEPT !.columns = [i \in 1..Len(frame.columns) |-> Lower(frame.columns[i])]]

ColumnSet(frame) == {frame.columns[i] : i \in 1..Len(frame.columns)}
PositionOf(frame, column) == CHOOSE i \in 1..Len(frame.columns) : frame.columns[i] = column

\* df.query(filter_condition) raises on a predicate pandas cannot evaluate
QueryRaises(filter_condition) == filter_condition = InvalidFilter
\* df.query(filter_condition): the frame of the rows the predicate keeps
Query(frame, filter_condition) == [frame EXCEPT !.plain = frame.filtered]

\* normalized[col_name.lower()] = col_config, in the order of config.items()
RECURSIVE _normalize_config(_)
_normalize_config(items) ==
    IF items = <<>> THEN <<>>
    ELSE LET n == Len(items)
             before == _normalize_config(SubSeq(items, 1, n - 1))
         IN  DictSet(before, Lower(items[n].key), items[n].value)

(***************************************************************************)
(* Result records.  A record holds the fields the model follows and keys,  *)
(* the set of the keys of the Python dict.                                 *)
(***************************************************************************)
ResultKeys == {"check_type", "column", "column_alias", "date", "filter_applied",
               "description", "metric_value", "thresholds", "status", "severity",
               "exceeded_threshold", "additional_metrics", "timestamp"}
ColumnErrorKeys == {"check_type", "column", "status", "severity", "error_message",
                    "error_type", "context"}
CheckErrorKeys == {"check_type", "column", "status", "severity", "error_message",
                   "error_type"}

\* the check classes of the registry, by registry name
CheckRegistry == [completeness |-> "CompletenessCheck", uniqueness |-> "UniquenessCheck",
                  range |-> "RangeCheck", turnover |-> "TurnoverCheck",
                  value_spike |-> "ValueSpikeCheck", frequency |-> "FrequencyCheck",
                  correlation |-> "CorrelationCheck", statistical |-> "StatisticalCheck",
                  distribution |-> "DistributionCheck", drift |-> "DriftCheck"]

\* self.__class__.__name__.replace("Check", "").lower()
ClassCheckType(class_name) ==
    CASE class_name = "CompletenessCheck" -> "completeness"
      [] class_name = "UniquenessCheck" -> "uniqueness"
      [] class_name = "RangeCheck" -> "range"
      [] class_name = "TurnoverCheck" -> "turnover"
      [] class_name = "ValueSpikeCheck" -> "valuespike"
      [] class_name = "FrequencyCheck" -> "frequency"
      [] class_name = "CorrelationCheck" -> "correlation"
      [] class_name = "StatisticalCheck" -> "statistical"
      [] class_name = "DistributionCheck" -> "distribution"
      [] class_name = "DriftCheck" -> "drift"

\* A text is the sequence of the pieces an f-string joins.
\* faulty variant: the text of a FilterError names no filter condition
FilterErrorStr_Generic(filter_condition) == <<"Invalid filter">>

\* str(FilterError(f"Invalid filter: {filter_condition}",
\*                 filter_condition=filter_condition)):
\* DQFrameworkError.__str__ gives f"{self.message} [{context_str}]", the context
\* being {"filter_condition": filter_condition}
FilterErrorStr(filter_condition) ==
    <<"Invalid filter: ", filter_condition, " [", "filter_condition", "=",
      filter_condition, "]">>

\* str(ValueError(f"Column '{column}' not found in DataFrame"))
ColumnNotFoundStr(column) == <<"Column '", column, "' not found in DataFrame">>

\* "error_message": str(error), "error_type": type(error).__name__
_handle_column_error(class_name, column, error_type, error_message) ==
    [check_type |-> ClassCheckType(class_name),
     column |-> Some(column),
     status |-> "ERROR",
     severity |-> "ERROR",
     metric_value |-> None,
     exceeded_threshold |-> None,
     error_type |-> Some(error_type),
     error_message |-> Some(error_message),
     keys |-> ColumnErrorKeys]

_create_result_record(class_name, column, metric_value, evaluation) ==
    [check_type |-> ClassCheckType(class_name),
     column |-> Some(column),
     status |-> evaluation.status,
     severity |-> evaluation.severity,
     metric_value |-> Some(metric_value),
     exceeded_threshold |-> evaluation.exceeded_threshold,
     error_type |-> None,
     error_message |-> None,
     keys |-> ResultKeys]

(***************************************************************************)
(* The per-column shell shared by the check variants (run, _check_column). *)
(***************************************************************************)
\* the metric of the variant on one column of the (filtered) frame
Measure(frame, column) == frame.plain[PositionOf(frame, column)]

\* if not filter_condition: return df
NoFilter(filter) == IsNone(filter) \/ filter = Some("")

Returned(record) ==
    [raised |-> FALSE, error_type |-> None, error_message |-> None, record |-> Some(record)]
Raised(error_type, error_message) ==
    [raised |-> TRUE, error_type |-> Some(error_type),
     error_message |-> Some(error_message), record |-> None]

\* column not in df.columns
MissingColumn(frame, column) == column \notin ColumnSet(frame)

_check_column(class_name, frame, column, config) ==
    LET filter == Get(config.v, "filter_condition")
    IN  IF ~NoFilter(filter) /\ QueryRaises(TheValue(filter))
        THEN Raised("FilterError", FilterErrorStr(TheValue(filter)))
        ELSE LET filtered_df == IF NoFilter(filter) THEN frame
                                ELSE Query(frame, TheValue(filter))
             IN  IF MissingColumn(filtered_df, column)
                 THEN Returned(_handle_column_error(class_name, column, "ValueError",
                                                   ColumnNotFoundStr(column)))
                 ELSE LET metric == Measure(filtered_df, column)
                          thresholds == IF "thresholds" \in DOMAIN config.v
                                        THEN config.v.thresholds ELSE <<>>
                      IN  Returned(_create_result_record(class_name, column, metric,
                              _evaluate_threshold(metric, thresholds, "absolute")))

\* config.get("enabled", True); on a configuration that is no dict the call raises
EnabledRaises(config) == ~config.is_dict
Enabled(config) == IF "enabled" \in DOMAIN config.v THEN config.v.enabled ELSE TRUE

\* one pass of the loop body of run(): what it adds to results, or that it raises
ColumnStep(class_name, frame, column, config) ==
    IF EnabledRaises(config) THEN [raised |-> TRUE, add |-> <<>>]
    ELSE IF ~Enabled(config) THEN [raised |-> FALSE, add |-> <<>>]
    ELSE LET r == _check_column(class_name, frame, column, config)
         IN  IF r.raised
             THEN [raised |-> FALSE,
                   add |-> <<_handle_column_error(class_name, column,
                                                  TheValue(r.error_type),
                                                  TheValue(r.error_message))>>]
             ELSE [raised |-> FALSE, add |-> <<TheValue(r.record)>>]

\* faulty variant: the loop stops at the first column that gave an ERROR record
RECURSIVE RunLoop_StopAtError(_, _, _)
RunLoop_StopAtError(class_name, frame, items) ==
    IF items = <<>> THEN [raised |-> FALSE, results |-> <<>>]
    ELSE LET n == Len(items)
             before == RunLoop_StopAtError(class_name, frame, SubSeq(items, 1, n - 1))
             step == ColumnStep(class_name, frame, items[n].key, items[n].value)
             stopped == \E i \in 1..Len(before.results) : before.results[i].status = "ERROR"
         IN  IF before.raised \/ (~stopped /\ step.raised)
             THEN [raised |-> TRUE, results |-> <<>>]
             ELSE IF stopped THEN before
             ELSE [raised |-> FALSE, results |-> before.results \o step.add]

\* for column, config in self.check_config.items(): ...
RECURSIVE RunLoop(_, _, _)
RunLoop(class_name, frame, items) ==
    IF items = <<>> THEN [raised |-> FALSE, results |-> <<>>]
    ELSE LET n == Len(items)
             before == RunLoop(class_name, frame, SubSeq(items, 1, n - 1))
             step == ColumnStep(class_name, frame, items[n].key, items[n].value)
         IN  IF before.raised \/ step.raised
             THEN [raised |-> TRUE, results |-> <<>>]
             ELSE [raised |-> FALSE, results |-> before.results \o step.add]

\* pd.DataFrame(results): the rows, under the union of the keys of the records as
\* columns (a row has NaN where its record had no such key); pd.DataFrame(), the
\* frame without rows and columns, when results is empty
UnionKeys(results) == UNION {results[i].keys : i \in 1..Len(results)}
DataFrame(results) == [columns |-> UnionKeys(results), rows |-> results]
EmptyDataFrame == DataFrame(<<>>)

\* BaseCheck.run of the variants other than statistical
run(class_name, frame, check_config) ==
    LET loop == RunLoop(class_name, frame, check_config)
    IN  IF loop.raised THEN [raised |-> TRUE, results |-> EmptyDataFrame]
        ELSE [raised |-> FALSE, results |-> DataFrame(loop.results)]

\* BaseCheck.__init__
__init__(class_name, frame, check_config) ==
    IF ~check_config.is_dict
    THEN [raised |-> TRUE, class_name |-> class_name, df |-> frame, check_config |-> <<>>]
    ELSE [raised |-> FALSE, class_name |-> class_name,
          df |-> _normalize_dataframe(frame),
          check_config |-> _normalize_config(check_config.v)]

(***************************************************************************)
(* CorrelationCheck.  A correlation is in tenths (8 is 0.8).  The frame of *)
(* a correlation check holds, beside its labels, the number of distinct    *)
(* dates, the number of identifiers present on both of the last two dates, *)
(* and the correlations of the configured column: temporal, between the    *)
(* last two dates, and cross, with the other column.                       *)
(***************************************************************************)
\* thresholds.get("absolute_critical", 0.8)
DefaultCritical == 8
\* metric_value=1.0 of the records for too few dates or matching records
PerfectCorrelation == 10

\* BaseCheck.__init__ as CorrelationCheck inherits it
CorrelationCheck__init__(frame, date_col, id_col, check_config) ==
    [df |-> _normalize_dataframe(frame),
     date_col |-> Lower(date_col),
     id_col |-> Lower(id_col),
     check_config |-> _normalize_config(check_config)]

\* the evaluation dict of the records that need no correlation
CorrelationPass == [status |-> "PASS", severity |-> "INFO", exceeded_threshold |-> None]

\* faulty variant: the correlation is compared with its sign
CorrelationEvaluation_Signed(correlation, config) ==
    LET thresholds == IF "thresholds" \in DOMAIN config.v THEN config.v.thresholds ELSE <<>>
        critical == IF "absolute_critical" \in DOMAIN thresholds
                    THEN thresholds.absolute_critical ELSE DefaultCritical
    IN  IF correlation < critical
        THEN [status |-> "FAIL", severity |-> "CRITICAL", exceeded_threshold |-> Some(critical)]
        ELSE CorrelationPass

\* if abs(correlation) < critical: FAIL / CRITICAL, else PASS / INFO
CorrelationEvaluation(correlation, config) ==
    LET thresholds == IF "thresholds" \in DOMAIN config.v THEN config.v.thresholds ELSE <<>>
        critical == IF "absolute_critical" \in DOMAIN thresholds
                    THEN thresholds.absolute_critical ELSE DefaultCritical
    IN  IF Abs(correlation) < critical
        THEN [status |-> "FAIL", severity |-> "CRITICAL", exceeded_threshold |-> Some(critical)]
        ELSE CorrelationPass

\* CorrelationCheck._check_column on a configuration without filter_condition
\* (_apply_filter returns self.df)
CorrelationCheck_check_column(self, column, config) ==
    LET frame == self.df
        correlation_type == IF "correlation_type" \in DOMAIN config.v
                            THEN config.v.correlation_type ELSE "temporal"
        other_column == Get(config.v, "correlation_with")
        Record(metric, evaluation) ==
            Returned(_create_result_record("CorrelationCheck", column, metric, evaluation))
    IN  IF MissingColumn(frame, column)
        THEN Returned(_handle_column_error("CorrelationCheck", column, "ValueError",
                                           <<"Column '", column, "' not found">>))
        ELSE IF correlation_type = "cross_column"
        THEN \* if not other_column or other_column not in df.columns
             IF \/ IsNone(other_column)
                \/ other_column = Some("")
                \/ MissingColumn(frame, TheValue(other_column))
             THEN Returned(_handle_column_error("CorrelationCheck", column, "ValueError",
                      <<"Correlation column '",
                        IF IsNone(other_column) THEN "None" ELSE TheValue(other_column),
                        "' not found">>))
             ELSE Record(frame.cross, CorrelationEvaluation(frame.cross, config))
        ELSE \* temporal: df[self.date_col] raises KeyError on a label not in df
             IF MissingColumn(frame, self.date_col)
             THEN Raised("KeyError", <<"'", self.date_col, "'">>)
             ELSE IF frame.n_dates < 2
             THEN Record(PerfectCorrelation, CorrelationPass)
             ELSE IF MissingColumn(frame, self.id_col)
             THEN Raised("KeyError", <<"'", self.id_col, "'">>)
             ELSE IF frame.matched < 2
             THEN Record(PerfectCorrelation, CorrelationPass)
             ELSE Record(frame.temporal, CorrelationEvaluation(frame.temporal, config))

\* one pass of the loop body of CorrelationCheck.run()
CorrelationStep(self, column, config) ==
    IF EnabledRaises(config) THEN [raised |-> TRUE, add |-> <<>>]
    ELSE IF ~Enabled(config) THEN [raised |-> FALSE, add |-> <<>>]
    ELSE LET r == CorrelationCheck_check_column(self, column, config)
         IN  IF r.raised
             THEN [raised |-> FALSE,
                   add |-> <<_handle_column_error("CorrelationCheck", column,
                                                  TheValue(r.error_type),
                                                  TheValue(r.error_message))>>]
             ELSE [raised |-> FALSE, add |-> <<TheValue(r.record)>>]

RECURSIVE CorrelationLoop(_, _)
CorrelationLoop(self, items) ==
    IF items = <<>> THEN [raised |-> FALSE, results |-> <<>>]
    ELSE LET n == Len(items)
             before == CorrelationLoop(self, SubSeq(items, 1, n - 1))
             step == CorrelationStep(self, items[n].key, items[n].value)
         IN  IF before.raised \/ step.raised
             THEN [raised |-> TRUE, results |-> <<>>]
             ELSE [raised |-> FALSE, results |-> before.results \o step.add]

\* CorrelationCheck.run
CorrelationCheck_run(self) ==
    LET loop == CorrelationLoop(self, self.check_config)
    IN  IF loop.raised THEN [raised |-> TRUE, results |-> EmptyDataFrame]
        ELSE [raised |-> FALSE, results |-> DataFrame(loop.results)]

(***************************************************************************)
(* UniquenessCheck.  A column is the sequence of its entries, which are   *)
(* positive numbers or Null, the missing entry (None and NaN of pandas).   *)
(***************************************************************************)
Null == -1
NotNull(x) == x # Null
\* Series.dropna(): the entries that are not missing, in order
dropna(values) == SelectSeq(values, NotNull)

\* Series.duplicated(keep=False): the mask of the entries that occur more than
\* once; the hash table of pandas takes two missing entries for equal
duplicated(values) ==
    [i \in 1..Len(values) |-> \E j \in 1..Len(values) : j # i /\ values[j] = values[i]]

\* Series.nunique(): the number of distinct entries, dropna=True being the default
nunique(values) == Cardinality({values[i] : i \in 1..Len(values)} \ {Null})

\* mask.sum() on a mask of booleans
MaskSum(mask) == Cardinality({i \in 1..Len(mask) : mask[i]})

\* series[mask]: the entries the mask selects, in order
RECURSIVE BooleanIndex(_, _)
BooleanIndex(values, mask) ==
    IF values = <<>> THEN <<>>
    ELSE LET n == Len(values)
             rest == BooleanIndex(SubSeq(values, 1, n - 1), SubSeq(mask, 1, n - 1))
         IN  IF mask[n] THEN Append(rest, values[n]) ELSE rest

\* duplicated_mask = df[column].duplicated(keep=False)
\* duplicate_count = duplicated_mask.sum() - df[column][duplicated_mask].nunique()
duplicate_count(values) ==
    LET duplicated_mask == duplicated(values)
    IN  MaskSum(duplicated_mask) - nunique(BooleanIndex(values, duplicated_mask))

(***************************************************************************)
(* RangeCheck.  The metric is a fraction, kept as numerator and            *)
(* denominator; the record is kept by its evaluation, its metric and the   *)
(* additional metrics the model follows.                                   *)
(***************************************************************************)
Fraction(n, d) == [num |-> n, den |-> d]
\* metric_value=0
Zero == Fraction(0, 1)

\* faulty variant: a value equal to min_value is out of range
BelowMin_Inclusive(values, min_value) ==
    LET Below(v) == v <= TheValue(min_value)
    IN  IF ~IsNone(min_value) THEN SelectSeq(values, Below) ELSE <<>>

\* values[values < min_value] if min_value is not None else pd.Series([])
BelowMin(values, min_value) ==
    LET Below(v) == v < TheValue(min_value)
    IN  IF ~IsNone(min_value) THEN SelectSeq(values, Below) ELSE <<>>

\* values[values > max_value] if max_value is not None else pd.Series([])
AboveMax(values, max_value) ==
    LET Above(v) == v > TheValue(max_value)
    IN  IF ~IsNone(max_value) THEN SelectSeq(values, Above) ELSE <<>>

\* RangeCheck._check_column on the entries of a column of the dataset
RangeCheck_check_column(column_entries, config) ==
    LET min_value == Get(config, "min_value")
        max_value == Get(config, "max_value")
        values == dropna(column_entries)
        total_count == Len(values)
    IN  IF total_count = 0
        THEN [metric_value |-> Zero,
              evaluation |-> [status |-> "PASS", severity |-> "INFO",
                              exceeded_threshold |-> None],
              additional_metrics |-> [out_of_range_count |-> 0, total_count |-> 0]]
        ELSE LET below_min == BelowMin(values, min_value)
                 above_max == AboveMax(values, max_value)
                 out_of_range_count == Len(below_min) + Len(above_max)
             IN  [metric_value |-> Fraction(out_of_range_count, total_count),
                  evaluation |->
                      IF out_of_range_count > 0
                      THEN [status |-> "FAIL", severity |-> "CRITICAL",
                            exceeded_threshold |-> None]
                      ELSE [status |-> "PASS", severity |-> "INFO",
                            exceeded_threshold |-> None],
                  additional_metrics |-> [out_of_range_count |-> out_of_range_count,
                                          total_count |-> total_count]]

(***************************************************************************)
(* TurnoverCheck.  The frame is the sequence of its rows, a row being the  *)
(* date and the entry of the column; dates are numbered in time order.     *)
(* Thresholds are in tenths, and the evaluator compares the rate num/den   *)
(* with a threshold t/10 in units of 1/(10*den): 10*num against t*den.     *)
(***************************************************************************)
\* sorted(S): the elements of a set of numbers in ascending order
RECURSIVE Sorted(_)
Sorted(S) ==
    IF S = {} THEN <<>>
    ELSE LET m == CHOOSE x \in S : \A y \in S : y <= x
         IN  Append(Sorted(S \ {m}), m)

\* df[self.date_col].unique()
UniqueDates(rows) == {rows[i].date : i \in 1..Len(rows)}

\* set(df[df[self.date_col] == date][column].dropna().unique())
IdsOn(rows, date) == {rows[i].id : i \in {j \in 1..Len(rows) : rows[j].date = date}} \ {Null}

\* faulty variant: the current date is compared with the earliest date
PrevDate_Earliest(dates) == dates[1]

\* prev_date = dates[-2]
PrevDate(dates) == dates[Len(dates) - 1]
\* curr_date = dates[-1]
CurrDate(dates) == dates[Len(dates)]

\* self._evaluate_threshold(rate, thresholds) on a rate that is a fraction
EvaluateFraction(rate, thresholds) ==
    LET scaled == [k \in DOMAIN thresholds |-> thresholds[k] * rate.den]
        e == _evaluate_threshold(10 * rate.num, scaled, "absolute")
    IN  [e EXCEPT !.exceeded_threshold =
                     IF IsNone(@) THEN None ELSE Some(TheValue(@) \div rate.den)]

\* TurnoverCheck._check_column on a column of the dataset, without filter
TurnoverCheck_check_column(rows, config) ==
    LET dates == Sorted(UniqueDates(rows))
    IN  IF Len(dates) < 2
        THEN [metric_value |-> Zero,
              evaluation |-> [status |-> "PASS", severity |-> "INFO",
                              exceeded_threshold |-> None],
              additional_metrics |-> [date_count |-> Len(dates)]]
        ELSE LET prev_ids == IdsOn(rows, PrevDate(dates))
                 curr_ids == IdsOn(rows, CurrDate(dates))
                 added == curr_ids \ prev_ids
                 dropped == prev_ids \ curr_ids
                 total_unique == prev_ids \cup curr_ids
                 added_count == Cardinality(added)
                 dropped_count == Cardinality(dropped)
                 total_count == Cardinality(total_unique)
                 turnover_rate == IF total_count > 0
                                  THEN Fraction(added_count + dropped_count, total_count)
                                  ELSE Zero
                 thresholds == IF "thresholds" \in DOMAIN config
                               THEN config.thresholds ELSE <<>>
             IN  [metric_value |-> turnover_rate,
                  evaluation |-> EvaluateFraction(turnover_rate, thresholds),
                  additional_metrics |-> [added_count |-> added_count,
                                          dropped_count |-> dropped_count,
                                          total_unique_ids |-> total_count]]

(***************************************************************************)
(* DriftCheck.  The frame is the sequence of its periods, one per distinct *)
(* date in time order; a period is the number of its non-null values and   *)
(* the distribution they follow (0: all values equal).  PSI values and     *)
(* thresholds are in hundredths.                                           *)
(***************************************************************************)
PSI_NO_DRIFT == 10
PSI_MODERATE_DRIFT == 25
\* len(baseline_values) < 10 or len(current_values) < 10
MinPsiValues == 10

\* len(np.unique(np.percentile(baseline, ...))): one edge when all values are equal
UniqueEdges(period) == IF period.dist = 0 THEN 1 ELSE 11

\* np.sum((current_props - baseline_props) * np.log(current_props / baseline_props))
\* for the distributions of the model: 0 for equal proportions, positive otherwise
PsiSum(baseline, current) ==
    IF baseline.dist = current.dist THEN 0
    ELSE CASE <<baseline.dist, current.dist>> = <<1, 2>> -> 10
           [] <<baseline.dist, current.dist>> = <<2, 1>> -> 12
           [] <<baseline.dist, current.dist>> = <<1, 3>> -> 25
           [] <<baseline.dist, current.dist>> = <<3, 1>> -> 24
           [] <<baseline.dist, current.dist>> = <<2, 3>> -> 5
           [] <<baseline.dist, current.dist>> = <<3, 2>> -> 30
           [] OTHER -> 40

\* DriftCheck._calculate_psi
_calculate_psi(baseline, current) ==
    IF UniqueEdges(baseline) < 2 THEN 0 ELSE PsiSum(baseline, current)

\* faulty variant: a PSI equal to the threshold does not trigger it
Reaches_Strict(psi, threshold) == psi > threshold

\* psi >= critical, psi >= warning
Reaches(psi, threshold) == psi >= threshold

\* DriftCheck._check_column on a column of the dataset, without filter
DriftCheck_check_column(periods, config) ==
    LET PassZero == [metric_value |-> 0,
                     evaluation |-> [status |-> "PASS", severity |-> "INFO",
                                     exceeded_threshold |-> None]]
    IN  IF Len(periods) < 2 THEN PassZero
        ELSE LET baseline_values == periods[1]
                 current_values == periods[Len(periods)]
             IN  IF baseline_values.n < MinPsiValues \/ current_values.n < MinPsiValues
                 THEN PassZero
                 ELSE LET psi == _calculate_psi(baseline_values, current_values)
                          thresholds == IF "thresholds" \in DOMAIN config
                                        THEN config.thresholds ELSE <<>>
                          critical == IF "absolute_critical" \in DOMAIN thresholds
                                      THEN thresholds.absolute_critical
                                      ELSE PSI_MODERATE_DRIFT
                          warning == IF "absolute_warning" \in DOMAIN thresholds
                                     THEN thresholds.absolute_warning ELSE PSI_NO_DRIFT
                      IN  [metric_value |-> psi,
                           evaluation |->
                               IF Reaches(psi, critical)
                               THEN [status |-> "FAIL", severity |-> "CRITICAL",
                                     exceeded_threshold |-> Some(critical)]
                               ELSE IF Reaches(psi, warning)
                               THEN [status |-> "WARNING", severity |-> "WARNING",
                                     exceeded_threshold |-> None]
                               ELSE [status |-> "PASS", severity |-> "INFO",
                                     exceeded_threshold |-> None]]

(***************************************************************************)
(* StatisticalCheck.  The column is kept by the number of its non-null     *)
(* values (after the filter) and the level of its statistics.  A threshold *)
(* is tagged with its Python type: a number x, kept as <<x>>, or a list    *)
(* [min, max].                                                             *)
(***************************************************************************)
Scalar(x) == [is_list |-> FALSE, v |-> <<x>>]
List(lo, hi) == [is_list |-> TRUE, v |-> <<lo, hi>>]

\* the dict stats of _check_column: the measures it knows and their values
Stats(n, level) ==
    [mean |-> level, median |-> level, std |-> level,
     min |-> level - 1, max |-> level + 1, count |-> n,
     skew |-> IF n > 2 THEN level ELSE 0,
     kurtosis |-> IF n > 3 THEN level ELSE 0]

\* config.get("measures", ["mean", "std", "median"])
DefaultMeasures == <<"mean", "std", "median">>

\* faulty variant: a value equal to a bound of the list is out of range
OutsideList_Exclusive(value, bounds) == value <= bounds[1] \/ value >= bounds[2]

\* min_val, max_val = thresholds["absolute_critical"]
\* value < min_val or value > max_val
OutsideList(value, bounds) == value < bounds[1] \/ value > bounds[2]

\* the record of one measure
MeasureRecord(measure, value, thresholds) ==
    LET critical == Get(thresholds, "absolute_critical")
        fail == IF IsNone(critical) THEN FALSE
                ELSE IF TheValue(critical).is_list
                THEN OutsideList(value, TheValue(critical).v)
                ELSE value > TheValue(critical).v[1]
    IN  [check_type |-> "statistical",
         measure |-> measure,
         metric_value |-> value,
         status |-> IF fail THEN "FAIL" ELSE "PASS",
         severity |-> IF fail THEN "CRITICAL" ELSE "INFO",
         exceeded_threshold |-> IF fail THEN critical ELSE None,
         thresholds |-> thresholds]

\* for measure in measures: if measure not in stats: continue; ... results.append
RECURSIVE MeasureLoop(_, _, _)
MeasureLoop(measures, stats_dict, measure_thresholds) ==
    IF measures = <<>> THEN <<>>
    ELSE LET n == Len(measures)
             measure == measures[n]
             before == MeasureLoop(SubSeq(measures, 1, n - 1), stats_dict, measure_thresholds)
             thresholds == IF measure \in DOMAIN measure_thresholds
                           THEN measure_thresholds[measure] ELSE <<>>
         IN  IF measure \notin DOMAIN stats_dict THEN before
             ELSE Append(before, MeasureRecord(measure, stats_dict[measure], thresholds))

\* StatisticalCheck._check_column on a column of the dataset: the list it returns
StatisticalCheck_check_column(n, level, config) ==
    IF n = 0 THEN <<>>
    ELSE LET measures == IF "measures" \in DOMAIN config
                         THEN config.measures ELSE DefaultMeasures
             measure_thresholds == IF "thresholds" \in DOMAIN config
                                   THEN config.thresholds ELSE <<>>
         IN  MeasureLoop(measures, Stats(n, level), measure_thresholds)

(***************************************************************************)
(* CheckManager.                                                           *)
(***************************************************************************)
\* faulty variant: an unknown check type is reported as a failure of the type
UnknownType_Raises(check_type) == [raised |-> TRUE, results |-> EmptyDataFrame]

\* check_class is None: log a warning and return pd.DataFrame()
UnknownType(check_type) == [raised |-> FALSE, results |-> EmptyDataFrame]

\* CheckManager.run_single_check: the DataFrame of the check, or the exception
run_single_check(frame, check_type, check_config) ==
    IF check_type \notin DOMAIN CheckRegistry
    THEN UnknownType(check_type)
    ELSE LET check_instance == __init__(CheckRegistry[check_type], frame, check_config)
         IN  IF check_instance.raised
             THEN [raised |-> TRUE, results |-> EmptyDataFrame]
             ELSE run(check_instance.class_name, check_instance.df,
                      check_instance.check_config)

\* faulty variant: the labels are lower-cased on the caller's frame itself
ArgAfter_normalize_dataframe_InPlace(frame) == _normalize_dataframe(frame)

\* the caller's frame after _normalize_dataframe(df): df = df.copy() rebinds the
\* local name before the labels are assigned, so the argument keeps its labels
ArgAfter_normalize_dataframe(frame) == frame

\* the caller's mapping after _normalize_config(config): the lower-cased keys go
\* into a new dict, and the per-column dicts they share are only read by run()
ArgAfter_normalize_config(items) == items

\* the manager's dataset and the configuration of the type after run_single_check
ArgsAfter_run_single_check(frame, check_type, check_config) ==
    IF check_type \notin DOMAIN CheckRegistry \/ ~check_config.is_dict
    THEN [df |-> frame, check_config |-> check_config]
    ELSE [df |-> ArgAfter_normalize_dataframe(frame),
          check_config |-> Dict(ArgAfter_normalize_config(check_config.v))]

\* faulty variant: the record of a failed check type has the severity of a FAIL
_handle_check_error_Critical(check_type) ==
    [check_type |-> check_type,
     column |-> None,
     status |-> "ERROR",
     severity |-> "CRITICAL",
     metric_value |-> None,
     exceeded_threshold |-> None,
     error_type |-> Some("Exception"),
     error_message |-> Some(<<"'NoneType' object has no attribute">>),
     keys |-> CheckErrorKeys]

\* the record CheckManager._handle_check_error appends
_handle_check_error(check_type) ==
    [check_type |-> check_type,
     column |-> None,
     status |-> "ERROR",
     severity |-> "ERROR",
     metric_value |-> None,
     exceeded_threshold |-> None,
     error_type |-> Some("Exception"),
     error_message |-> Some(<<"'NoneType' object has no attribute">>),
     keys |-> CheckErrorKeys]

\* results.to_dict('records'): one dict per row, with every column of the frame as key
ToDictRecords(frame) ==
    [i \in 1..Len(frame.rows) |-> [frame.rows[i] EXCEPT !.keys = frame.columns]]

\* faulty variant: a failed check type gets two ERROR records
TryRunSingleCheck_ErrorTwice(results, check_type, out) ==
    IF out.raised
    THEN [raised |-> FALSE,
          check_results |-> results \o <<_handle_check_error(check_type),
                                         _handle_check_error(check_type)>>,
          added |-> <<_handle_check_error(check_type), _handle_check_error(check_type)>>]
    ELSE [raised |-> FALSE, check_results |-> results \o ToDictRecords(out.results),
          added |-> ToDictRecords(out.results)]

\* the try statement of run_all_checks, given what run_single_check did:
\*   try: results = ...; self.check_results.extend(results.to_dict('records'))
\*   except Exception as e: self._handle_check_error(check_type, e)
\* raised says whether an exception leaves the statement
TryRunSingleCheck(results, check_type, out) ==
    IF out.raised
    THEN [raised |-> FALSE,
          check_results |-> Append(results, _handle_check_error(check_type)),
          added |-> <<_handle_check_error(check_type)>>]
    ELSE [raised |-> FALSE, check_results |-> results \o ToDictRecords(out.results),
          added |-> ToDictRecords(out.results)]

\* faulty variant: the except clause of the parallel path records nothing
TryFutureResult_Swallow(results, check_type, out) ==
    IF out.raised
    THEN [raised |-> FALSE, check_results |-> results, added |-> <<>>]
    ELSE [raised |-> FALSE, check_results |-> results \o ToDictRecords(out.results),
          added |-> ToDictRecords(out.results)]

\* faulty variant: the parallel path has no except clause, future.result() re-raises
TryFutureResult_NoExcept(results, check_type, out) ==
    IF out.raised
    THEN [raised |-> TRUE, check_results |-> results, added |-> <<>>]
    ELSE [raised |-> FALSE, check_results |-> results \o ToDictRecords(out.results),
          added |-> ToDictRecords(out.results)]

\* the try statement of run_all_checks_parallel, given the outcome the future holds:
\*   try: results = future.result(); self.check_results.extend(results.to_dict('records'))
\*   except Exception as e: self._handle_check_error(check_type, e)
TryFutureResult(results, check_type, out) ==
    IF out.raised
    THEN [raised |-> FALSE,
          check_results |-> Append(results, _handle_check_error(check_type)),
          added |-> <<_handle_check_error(check_type)>>]
    ELSE [raised |-> FALSE, check_results |-> results \o ToDictRecords(out.results),
          added |-> ToDictRecords(out.results)]

CountStatus(results, status) ==
    Cardinality({i \in 1..Len(results) : results[i].status = status})

\* faulty variant: the rate is cut off after the first decimal
PassRate_Truncated(passed, total) == (passed * 1000) \div total

\* round(passed / total * 100, 1), in tenths of a percent, ties to even
PassRate(passed, total) ==
    LET q == (passed * 1000) \div total
        r == (passed * 1000) % total
    IN  IF 2 * r > total \/ (2 * r = total /\ q % 2 = 1) THEN q + 1 ELSE q

\* CheckManager.get_summary_statistics
get_summary_statistics(results) ==
    LET total == Len(results)
    IN  IF total = 0
        THEN [total |-> 0, passed |-> 0, warnings |-> 0, failed |-> 0, errors |-> 0,
              pass_rate |-> 0]
        ELSE [total |-> total,
              passed |-> CountStatus(results, "PASS"),
              warnings |-> CountStatus(results, "WARNING"),
              failed |-> CountStatus(results, "FAIL"),
              errors |-> CountStatus(results, "ERROR"),
              pass_rate |-> PassRate(CountStatus(results, "PASS"), total)]

OfType(results, check_type) ==
    LET Is(r) == r.check_type = check_type
    IN  SelectSeq(results, Is)

\* faulty variant: a group keeps only the newest record of its type
_group_results_by_type_Newest(results) ==
    [t \in {results[i].check_type : i \in 1..Len(results)} |->
        <<OfType(results, t)[Len(OfType(results, t))]>>]

\* CheckManager._group_results_by_type
_group_results_by_type(results) ==
    [t \in {results[i].check_type : i \in 1..Len(results)} |-> OfType(results, t)]

RECURSIVE Reverse(_)
Reverse(list) ==
    IF list = <<>> THEN <<>> ELSE Append(Reverse(Tail(list)), Head(list))

\* faulty variant: the failed records come newest first
get_failed_checks_Reversed(results) ==
    LET IsFail(r) == r.status = "FAIL"
    IN  Reverse(SelectSeq(results, IsFail))

\* [r for r in self.check_results if r.get('status') == CheckStatus.FAIL]
get_failed_checks(results) ==
    LET IsFail(r) == r.status = "FAIL"
    IN  SelectSeq(results, IsFail)

\* [r for r in self.check_results if r.get('status') == CheckStatus.WARNING]
get_warning_checks(results) ==
    LET IsWarning(r) == r.status = "WARNING"
    IN  SelectSeq(results, IsWarning)

\* the metadata of the managers of the model
Metadata == [date_column |-> "date", id_column |-> "id"]

\* CheckManager.aggregate_results of manager m; 'results' is the list check_results
\* of the manager itself, not a copy of it
aggregate_results(m, results) ==
    [metadata |-> Metadata,
     summary |-> get_summary_statistics(results),
     results |-> [list_of |-> m],
     results_by_type |-> _group_results_by_type(results)]

(***************************************************************************)
(* Inputs of the model.                                                    *)
(***************************************************************************)
Merge(f, g) == [k \in DOMAIN f \cup DOMAIN g |-> IF k \in DOMAIN f THEN f[k] ELSE g[k]]

\* thresholds of a column: metric 0 passes, 1 warns, 2 and more fail
ColumnThresholds == [absolute_critical |-> 1, absolute_warning |-> 0]

OptEnabled == {<<>>} \cup {[enabled |-> b] : b \in BOOLEAN}
OptFilter == {<<>>} \cup {[filter_condition |-> f] : f \in {ValidFilter, InvalidFilter}}
\* the per-column configurations: dicts with the options of the shell, the empty
\* dict, and a value that is no dict (a column left empty in the YAML file is None)
ColumnDicts ==
    {Merge(Merge(e, f), [thresholds |-> ColumnThresholds]) : e \in OptEnabled, f \in OptFilter}
    \cup {<<>>}
ColumnConfigs == {Dict(d) : d \in ColumnDicts} \cup {PyNone}

\* configured column names: two that differ in letter case only, one not in the data
ColumnNames == {"Value", "value", "missing_column"}

DistinctKeys(items) == \A i, j \in 1..Len(items) : items[i].key = items[j].key => i = j
ColumnItems == {Item(k, c) : k \in ColumnNames, c \in ColumnConfigs}
\* the configurations of one check type with at most n columns
TypeConfigs(n) ==
    {Dict(items) : items \in {s \in UNION {[1..m -> ColumnItems] : m \in 0..n} : DistinctKeys(s)}}
    \cup {PyNone}

\* the datasets: column labels as the caller wrote them, and the measures
Datasets ==
    {[columns |-> <<"Value", "price">>, plain |-> <<2, 1>>, filtered |-> <<0, 1>>],
     [columns |-> <<"value">>, plain |-> <<1>>, filtered |-> <<2>>]}

\* the check classes whose run() is the common shell
ShellClasses == {"CompletenessCheck", "ValueSpikeCheck"}

(***************************************************************************)
(* Values of the variables a specification does not use.                   *)
(***************************************************************************)
Managers == {"seq", "par"}
NoEval == [state |-> "none"]
NoCheck == [state |-> "none"]
ManagerVars == <<df, checks_config, max_workers, check_results, pc, idx, fut,
                 outcome, appended, starts, returned, writer>>
NoStats == [state |-> "none"]
NoMgr == [state |-> "none"]
NoUq == [state |-> "none"]
NoCc == [state |-> "none"]
NoCall == [state |-> "none"]
NoRetry == [state |-> "none"]
Calls == <<call, rwb>>
NoCalls == call = NoCall /\ rwb = NoRetry
Other == <<stats, mgr, uq, cc, Calls>>
NoOther == stats = NoStats /\ mgr = NoMgr /\ uq = NoUq /\ cc = NoCc /\ NoCalls
NoManager ==
    /\ df = <<>>
    /\ checks_config = <<>>
    /\ max_workers = 1
    /\ check_results = [m \in Managers |-> <<>>]
    /\ pc = [m \in Managers |-> "none"]
    /\ idx = [m \in Managers |-> 0]
    /\ fut = <<>>
    /\ outcome = [m \in Managers |-> <<>>]
    /\ appended = [m \in Managers |-> <<>>]
    /\ starts = [m \in Managers |-> <<>>]
    /\ returned = [m \in Managers |-> None]
    /\ writer = "none"

(***************************************************************************)
(* Specification of the threshold evaluator: one call on bounded inputs.   *)
(***************************************************************************)
ThresholdSpecs == UNION {[K -> ThrVals] : K \in SUBSET ThresholdKeys}

InitThreshold ==
    /\ ev \in {[state |-> "called", value |-> v, thresholds |-> t, threshold_type |-> k,
                result |-> None] :
               v \in Vals, t \in ThresholdSpecs, k \in ThresholdTypes}
    /\ chk = NoCheck
    /\ NoManager
    /\ NoOther

Evaluate ==
    /\ ev.state = "called"
    /\ ev' = [ev EXCEPT !.state = "returned",
                        !.result = Some(_evaluate_threshold(ev.value, ev.thresholds,
                                                            ev.threshold_type))]
    /\ UNCHANGED <<chk, ManagerVars, Other>>

NextThreshold == Evaluate

SpecThreshold == InitThreshold /\ [][NextThreshold]_vars

(***************************************************************************)
(* Specification of one check: construction, then run().                   *)
(***************************************************************************)
InitCheck ==
    /\ chk \in {[state |-> "new", class_name |-> c, df_arg |-> d, config_arg |-> g,
                 df |-> <<>>, check_config |-> <<>>, results |-> EmptyDataFrame] :
                c \in ShellClasses, d \in Datasets, g \in TypeConfigs(MaxCols)}
    /\ ev = NoEval
    /\ NoManager
    /\ NoOther

\* check_class(df=..., date_col=..., id_col=..., check_config=...)
Construct ==
    /\ chk.state = "new"
    /\ LET self == __init__(chk.class_name, chk.df_arg, chk.config_arg)
       IN  chk' = [chk EXCEPT !.state = IF self.raised THEN "init_raised" ELSE "ready",
                              !.df = self.df,
                              !.check_config = self.check_config]
    /\ UNCHANGED <<ev, ManagerVars, Other>>

\* check_instance.run()
Run ==
    /\ chk.state = "ready"
    /\ LET r == run(chk.class_name, chk.df, chk.check_config)
       IN  chk' = [chk EXCEPT !.state = IF r.raised THEN "run_raised" ELSE "returned",
                              !.results = r.results]
    /\ UNCHANGED <<ev, ManagerVars, Other>>

NextCheck == Construct \/ Run

SpecCheck == InitCheck /\ [][NextCheck]_vars

(***************************************************************************)
(* Specification of the reporting methods: get_summary_statistics,         *)
(* get_failed_checks and get_warning_checks, each called once on a manager *)
(* whose check_results is a given list.                                    *)
(***************************************************************************)
\* what r.get('status') gives for a record without that key
Absent == "(absent)"

\* records as a caller may put them into check_results
GivenRecords ==
    {[check_type |-> t, status |-> st,
      keys |-> IF st = Absent THEN {"check_type"} ELSE {"check_type", "status"}] :
        t \in {"completeness", "range"}, st \in CheckStatus \cup {Absent}}
GivenLists == UNION {[1..n -> GivenRecords] : n \in 0..MaxRecs}

InitStats ==
    /\ stats \in {[state |-> "given", check_results |-> l, summary |-> None,
                   failed |-> None, warnings |-> None] : l \in GivenLists}
    /\ ev = NoEval
    /\ chk = NoCheck
    /\ NoManager
    /\ mgr = NoMgr
    /\ uq = NoUq
    /\ cc = NoCc
    /\ NoCalls

\* manager.get_summary_statistics()
Summary ==
    /\ stats.state = "given"
    /\ stats.summary = None
    /\ stats' = [stats EXCEPT !.summary = Some(get_summary_statistics(stats.check_results))]
    /\ UNCHANGED <<ev, chk, ManagerVars, mgr, uq, cc, Calls>>

\* manager.get_failed_checks()
Failed ==
    /\ stats.state = "given"
    /\ stats.failed = None
    /\ stats' = [stats EXCEPT !.failed = Some(get_failed_checks(stats.check_results))]
    /\ UNCHANGED <<ev, chk, ManagerVars, mgr, uq, cc, Calls>>

\* manager.get_warning_checks()
Warnings ==
    /\ stats.state = "given"
    /\ stats.warnings = None
    /\ stats' = [stats EXCEPT !.warnings = Some(get_warning_checks(stats.check_results))]
    /\ UNCHANGED <<ev, chk, ManagerVars, mgr, uq, cc, Calls>>

NextStats == Summary \/ Failed \/ Warnings

SpecStats == InitStats /\ [][NextStats]_vars

(***************************************************************************)
(* Specification of the managers: one manager runs run_all_checks(), then  *)
(* a second manager over the same dataset and configuration runs           *)
(* run_all_checks_parallel(max_workers).                                   *)
(***************************************************************************)
PlainColumn == Dict([thresholds |-> ColumnThresholds])
DisabledColumn == Dict([enabled |-> FALSE, thresholds |-> ColumnThresholds])
\* the configurations of a known check type: a column of the data and a column
\* that is missing; a column whose configuration is None; a configuration that is
\* no dict; one disabled column
ManagerTypeConfigs ==
    {Dict(<<Item("Value", PlainColumn), Item("missing_column", PlainColumn)>>),
     Dict(<<Item("value", PyNone)>>),
     PyNone,
     Dict(<<Item("Value", DisabledColumn)>>)}
\* the configured check type names: two of the registry and one that is unknown
ConfiguredNames == {"completeness", "value_spike", "invalid_check_type"}
ManagerItems ==
    {Item(t, g) : t \in ConfiguredNames \cap DOMAIN CheckRegistry, g \in ManagerTypeConfigs}
    \cup {Item(t, Dict(<<Item("Value", PlainColumn)>>)) :
          t \in ConfiguredNames \ DOMAIN CheckRegistry}
ChecksConfigs ==
    {s \in UNION {[1..n -> ManagerItems] : n \in 0..Cardinality(ConfiguredNames)} :
        DistinctKeys(s)}

N == Len(checks_config)
Types == 1..N

InitManager ==
    /\ df \in Datasets
    /\ checks_config \in ChecksConfigs
    /\ max_workers \in 1..MaxWorkers
    /\ check_results = [m \in Managers |-> <<>>]
    /\ pc = [m \in Managers |-> "idle"]
    /\ idx = [m \in Managers |-> 0]
    /\ fut = [i \in Types |-> "unsubmitted"]
    /\ outcome = [m \in Managers |-> [i \in Types |-> None]]
    /\ appended = [m \in Managers |-> [i \in Types |-> <<>>]]
    /\ starts = [m \in Managers |-> [i \in Types |-> 0]]
    /\ returned = [m \in Managers |-> None]
    /\ writer = "none"
    /\ ev = NoEval
    /\ chk = NoCheck
    /\ NoOther

Inputs == <<ev, chk, df, checks_config, max_workers, Other>>
Beside == <<ev, chk, max_workers, Other>>

\* manager "seq": run_all_checks() is called
SeqCall ==
    /\ pc["seq"] = "idle"
    /\ pc' = [pc EXCEPT !["seq"] = "loop"]
    /\ UNCHANGED <<Inputs, check_results, idx, fut, outcome, appended, starts, returned, writer>>

\* the loop takes the next configured type and calls run_single_check
SeqStart ==
    /\ pc["seq"] = "loop"
    /\ idx["seq"] < N
    /\ pc' = [pc EXCEPT !["seq"] = "running"]
    /\ starts' = [starts EXCEPT !["seq"][idx["seq"] + 1] = @ + 1]
    /\ UNCHANGED <<Inputs, check_results, idx, fut, outcome, appended, returned, writer>>

\* faulty variant: a check type that raised is run a second time before it is recorded
SeqFinish_RetryOnFailure ==
    /\ pc["seq"] = "running"
    /\ LET i == idx["seq"] + 1
           out == run_single_check(df, checks_config[i].key, checks_config[i].value)
           t == TryRunSingleCheck(check_results["seq"], checks_config[i].key, out)
           retry == out.raised /\ starts["seq"][i] < 2
       IN  /\ outcome' = [outcome EXCEPT !["seq"][i] = IF retry THEN @ ELSE Some(out)]
           /\ check_results' = [check_results EXCEPT
                                   !["seq"] = IF retry THEN @ ELSE t.check_results]
           /\ appended' = [appended EXCEPT !["seq"][i] = IF retry THEN @ ELSE @ \o t.added]
           /\ idx' = [idx EXCEPT !["seq"] = IF retry THEN @ ELSE i]
           /\ pc' = [pc EXCEPT !["seq"] = "loop"]
    /\ UNCHANGED <<Inputs, fut, starts, returned, writer>>

\* run_single_check returns or raises; the try statement extends check_results
SeqFinish ==
    /\ pc["seq"] = "running"
    /\ LET i == idx["seq"] + 1
           out == run_single_check(df, checks_config[i].key, checks_config[i].value)
           t == TryRunSingleCheck(check_results["seq"], checks_config[i].key, out)
       IN  /\ outcome' = [outcome EXCEPT !["seq"][i] = Some(out)]
           /\ check_results' = [check_results EXCEPT !["seq"] = t.check_results]
           /\ appended' = [appended EXCEPT !["seq"][i] = @ \o t.added]
           /\ idx' = [idx EXCEPT !["seq"] = i]
           /\ pc' = [pc EXCEPT !["seq"] = IF t.raised THEN "raised" ELSE "loop"]
           /\ LET args == ArgsAfter_run_single_check(df, checks_config[i].key,
                                                     checks_config[i].value)
              IN  /\ df' = args.df
                  /\ checks_config' = [checks_config EXCEPT ![i].value = args.check_config]
    /\ UNCHANGED <<Beside, fut, starts, returned, writer>>

\* return self.aggregate_results()
SeqReturn ==
    /\ pc["seq"] = "loop"
    /\ idx["seq"] = N
    /\ returned' = [returned EXCEPT
                       !["seq"] = Some(aggregate_results("seq", check_results["seq"]))]
    /\ pc' = [pc EXCEPT !["seq"] = "returned"]
    /\ UNCHANGED <<Inputs, check_results, idx, fut, outcome, appended, starts, writer>>

\* manager "par": run_all_checks_parallel(max_workers) is called
ParCall ==
    /\ pc["seq"] \in {"returned", "raised"}
    /\ pc["par"] = "idle"
    /\ pc' = [pc EXCEPT !["par"] = IF N = 0 THEN "collect" ELSE "submit"]
    /\ UNCHANGED <<Inputs, check_results, idx, fut, outcome, appended, starts, returned, writer>>

\* executor.submit(self.run_single_check, check_type, check_config), in the order of
\* checks_config.items(); after the last one the calling thread enters as_completed
Submit ==
    /\ pc["par"] = "submit"
    /\ LET i == idx["par"] + 1
       IN  /\ fut' = [fut EXCEPT ![i] = "pending"]
           /\ idx' = [idx EXCEPT !["par"] = i]
           /\ pc' = [pc EXCEPT !["par"] = IF i = N THEN "collect" ELSE "submit"]
    /\ UNCHANGED <<Inputs, check_results, outcome, appended, starts, returned, writer>>

Running == {i \in Types : fut[i] = "running"}

\* a worker of the pool takes the oldest queued task; at most max_workers run
WorkerStart(i) ==
    /\ fut[i] = "pending"
    /\ \A j \in 1..(i - 1) : fut[j] # "pending"
    /\ Cardinality(Running) < max_workers
    /\ fut' = [fut EXCEPT ![i] = "running"]
    /\ starts' = [starts EXCEPT !["par"][i] = @ + 1]
    /\ UNCHANGED <<Inputs, check_results, pc, idx, outcome, appended, returned, writer>>

\* faulty variant: the task adds its records to the shared list from the worker thread
WorkerEffect_Extends(results, out) == results \o ToDictRecords(out.results)

\* what the task run_single_check does to self.check_results: it only reads the
\* registry, the dataset and the metadata and returns the frame of the check
WorkerEffect(results, out) == results

\* the task of type i ends in its worker: the future holds its result or exception
WorkerFinish(i) ==
    /\ fut[i] = "running"
    /\ LET out == run_single_check(df, checks_config[i].key, checks_config[i].value)
           after == WorkerEffect(check_results["par"], out)
       IN  /\ outcome' = [outcome EXCEPT !["par"][i] = Some(out)]
           /\ check_results' = [check_results EXCEPT !["par"] = after]
           /\ writer' = IF after # check_results["par"] THEN "worker" ELSE writer
    /\ LET args == ArgsAfter_run_single_check(df, checks_config[i].key,
                                              checks_config[i].value)
       IN  /\ df' = args.df
           /\ checks_config' = [checks_config EXCEPT ![i].value = args.check_config]
    /\ fut' = [fut EXCEPT ![i] = "finished"]
    /\ UNCHANGED <<Beside, pc, idx, appended, starts, returned>>

\* as_completed yields a finished future; the calling thread takes future.result()
\* in the try statement
Collect(i) ==
    /\ pc["par"] = "collect"
    /\ fut[i] = "finished"
    /\ LET t == TryFutureResult(check_results["par"], checks_config[i].key,
                                TheValue(outcome["par"][i]))
       IN  /\ check_results' = [check_results EXCEPT !["par"] = t.check_results]
           /\ appended' = [appended EXCEPT !["par"][i] = @ \o t.added]
           /\ writer' = IF t.check_results # check_results["par"] THEN "main" ELSE writer
           /\ pc' = [pc EXCEPT !["par"] = IF t.raised THEN "raised" ELSE "collect"]
    /\ fut' = [fut EXCEPT ![i] = "yielded"]
    /\ UNCHANGED <<Inputs, idx, outcome, starts, returned>>

\* every future was yielded: the executor shuts down, return self.aggregate_results()
ParReturn ==
    /\ pc["par"] = "collect"
    /\ \A i \in Types : fut[i] = "yielded"
    /\ returned' = [returned EXCEPT
                       !["par"] = Some(aggregate_results("par", check_results["par"]))]
    /\ pc' = [pc EXCEPT !["par"] = "returned"]
    /\ UNCHANGED <<Inputs, check_results, idx, fut, outcome, appended, starts, writer>>

Next ==
    \/ SeqCall \/ SeqStart \/ SeqFinish \/ SeqReturn
    \/ ParCall \/ Submit \/ ParReturn
    \/ \E i \in Types : WorkerStart(i)
    \/ \E i \in Types : WorkerFinish(i)
    \/ \E i \in Types : Collect(i)

Init == InitManager

Spec == Init /\ [][Next]_vars

\* run_single_check comes to an end: the loops of a check run over the configured
\* columns and the rows of the dataset
CheckEnds == pc["seq"] = "running" /\ pc' = [pc EXCEPT !["seq"] = "loop"]
TaskEnds(i) == fut[i] = "running" /\ fut' = [fut EXCEPT ![i] = "finished"]

\* the calling threads and the workers of the pool are never blocked: a thread that
\* can take its next step takes it, and a check that runs comes to an end
Fairness ==
    /\ WF_vars(SeqCall \/ SeqStart \/ SeqReturn)
    /\ WF_pc(CheckEnds)
    /\ WF_vars(ParCall \/ Submit \/ ParReturn \/ \E i \in Types : Collect(i))
    /\ \A i \in 1..Cardinality(ConfiguredNames) :
           /\ WF_vars(i \in Types /\ WorkerStart(i))
           /\ WF_fut(i \in Types /\ TaskEnds(i))

FairSpec == Init /\ [][Next]_vars /\ Fairness

(***************************************************************************)
(* Specification of one manager object over a sequence of calls of         *)
(* run_all_checks, run_all_checks_parallel and aggregate_results.  A run   *)
(* is one step here; its interleavings are the subject of Spec.            *)
(***************************************************************************)
\* the try statement of the loop for the types at the places order[1..n], in turn
RECURSIVE RunInOrder(_, _, _, _, _)
RunInOrder(results, frame, config, order, n) ==
    IF n = 0 THEN results
    ELSE LET before == RunInOrder(results, frame, config, order, n - 1)
             item == config[order[n]]
         IN  TryRunSingleCheck(before, item.key,
                               run_single_check(frame, item.key, item.value)).check_results

\* the orders in which as_completed may yield the futures of n types
CompletionOrders(n) == {p \in [1..n -> 1..n] : \A i, j \in 1..n : p[i] = p[j] => i = j}

InitOps ==
    /\ df \in Datasets
    /\ checks_config \in ChecksConfigs
    /\ max_workers \in 1..MaxWorkers
    /\ mgr = [state |-> "constructed", check_results |-> <<>>, runs |-> <<>>, last |-> None]
    /\ check_results = [m \in Managers |-> <<>>]
    /\ pc = [m \in Managers |-> "none"]
    /\ idx = [m \in Managers |-> 0]
    /\ fut = <<>>
    /\ outcome = [m \in Managers |-> <<>>]
    /\ appended = [m \in Managers |-> <<>>]
    /\ starts = [m \in Managers |-> <<>>]
    /\ returned = [m \in Managers |-> None]
    /\ writer = "none"
    /\ ev = NoEval
    /\ chk = NoCheck
    /\ stats = NoStats
    /\ uq = NoUq
    /\ cc = NoCc
    /\ NoCalls

OpsFrame == <<ev, chk, ManagerVars, stats, uq, cc, Calls>>

\* the state of the manager after a run that left the list after, and what it returns
AfterRun(op, after) ==
    [mgr EXCEPT !.state = "used",
                !.check_results = after,
                !.runs = Append(@, aggregate_results("mgr", after)),
                !.last = Some([op |-> op, value |-> aggregate_results("mgr", after)])]

\* manager.run_all_checks()
OpRunAllChecks ==
    /\ mgr.state \in {"constructed", "used"}
    /\ Len(mgr.runs) < MaxRuns
    /\ mgr' = AfterRun("run_all_checks",
                       RunInOrder(mgr.check_results, df, checks_config,
                                  [i \in 1..Len(checks_config) |-> i], Len(checks_config)))
    /\ UNCHANGED OpsFrame

\* manager.run_all_checks_parallel(max_workers)
OpRunAllChecksParallel ==
    /\ mgr.state \in {"constructed", "used"}
    /\ Len(mgr.runs) < MaxRuns
    /\ \E order \in CompletionOrders(Len(checks_config)) :
           mgr' = AfterRun("run_all_checks_parallel",
                           RunInOrder(mgr.check_results, df, checks_config, order,
                                      Len(checks_config)))
    /\ UNCHANGED OpsFrame

\* manager.aggregate_results()
OpAggregate ==
    /\ mgr.state \in {"constructed", "used"}
    /\ mgr' = [mgr EXCEPT !.last = Some([op |-> "aggregate_results",
                                         value |-> aggregate_results("mgr", mgr.check_results)])]
    /\ UNCHANGED OpsFrame

NextOps == OpRunAllChecks \/ OpRunAllChecksParallel \/ OpAggregate

SpecOps == InitOps /\ [][NextOps]_vars

(***************************************************************************)
(* Specification of one correlation check whose dataset and configuration  *)
(* write the column names in either letter case.                           *)
(***************************************************************************)
Capital(name) ==
    CASE name = "date" -> "Date"
      [] name = "id" -> "Id"
      [] name = "price" -> "Price"
      [] name = "qty" -> "Qty"
      [] OTHER -> name
EitherCase(name) == {name, Capital(name)}
\* a weak correlation, one equal to the default threshold, a strong negative one
CorrVals == {5, 8, -9}
CorrFrames ==
    {[columns |-> <<d, i, p, q>>, n_dates |-> n, matched |-> m, temporal |-> t, cross |-> c] :
        d \in EitherCase("date"), i \in EitherCase("id"), p \in EitherCase("price"),
        q \in EitherCase("qty"), n \in 1..2, m \in 1..2, t \in CorrVals, c \in CorrVals}
OptCorrelationType == {<<>>, [correlation_type |-> "cross_column"]}
OptCorrelationWith ==
    {<<>>} \cup {[correlation_with |-> w] : w \in EitherCase("qty") \cup {"missing_column"}}
OptCritical == {<<>>, [thresholds |-> [absolute_critical |-> 4]]}
CorrelationConfigs ==
    {<<Item(k, Dict(Merge(Merge(t, w), c)))>> :
        k \in EitherCase("price"), t \in OptCorrelationType, w \in OptCorrelationWith,
        c \in OptCritical}

InitCase ==
    /\ cc \in {[state |-> "new", df_arg |-> f, date_col |-> d, id_col |-> i,
                 config_arg |-> g, results |-> EmptyDataFrame] :
                f \in CorrFrames, d \in EitherCase("date"), i \in EitherCase("id"),
                g \in CorrelationConfigs}
    /\ ev = NoEval
    /\ chk = NoCheck
    /\ NoManager
    /\ stats = NoStats /\ mgr = NoMgr /\ uq = NoUq /\ NoCalls

\* CorrelationCheck(df=..., date_col=..., id_col=..., check_config=...).run()
RunCorrelation ==
    /\ cc.state = "new"
    /\ LET self == CorrelationCheck__init__(cc.df_arg, cc.date_col, cc.id_col, cc.config_arg)
           r == CorrelationCheck_run(self)
       IN  cc' = [cc EXCEPT !.state = IF r.raised THEN "run_raised" ELSE "returned",
                            !.results = r.results]
    /\ UNCHANGED <<ev, chk, ManagerVars, stats, mgr, uq, Calls>>

NextCase == RunCorrelation

SpecCase == InitCase /\ [][NextCase]_vars

(***************************************************************************)
(* Specification of the uniqueness metric of one column and its status.    *)
(***************************************************************************)
Entries == {1, 2, Null}
\* the columns of at most MaxRows entries, and the columns of the documentation
\* and of the tests
UniquenessColumns ==
    UNION {[1..n -> Entries] : n \in 0..MaxRows}
    \cup {<<1, 2, 3, 3, 3, 4>>, <<42, 42, 42, 42, 42>>, <<10, Null, 10, Null, 20>>}
UniquenessThresholds == {<<>>, [absolute_critical |-> 0], [absolute_critical |-> 5]}

InitUniqueness ==
    /\ uq \in {[state |-> "called", values |-> v, thresholds |-> t,
                 metric_value |-> None, evaluation |-> None] :
                v \in UniquenessColumns, t \in UniquenessThresholds}
    /\ ev = NoEval
    /\ chk = NoCheck
    /\ NoManager
    /\ stats = NoStats /\ mgr = NoMgr /\ cc = NoCc /\ NoCalls

\* UniquenessCheck._check_column on a column of the dataset, without filter
CheckUniqueness ==
    /\ uq.state = "called"
    /\ LET metric == duplicate_count(uq.values)
       IN  uq' = [uq EXCEPT !.state = "returned",
                            !.metric_value = Some(metric),
                            !.evaluation = Some(_evaluate_threshold(metric, uq.thresholds,
                                                                    "absolute"))]
    /\ UNCHANGED <<ev, chk, ManagerVars, stats, mgr, cc, Calls>>

NextUniqueness == CheckUniqueness

SpecUniqueness == InitUniqueness /\ [][NextUniqueness]_vars

(***************************************************************************)
(* Specification of the range check of one column.                         *)
(***************************************************************************)
RangeEntries == {Null, 0, 1, 2, 3}
OptMin == {<<>>} \cup {[min_value |-> b] : b \in {1, 2}}
OptMax == {<<>>} \cup {[max_value |-> b] : b \in {1, 2}}
\* the columns of at most MaxRows entries under every pair of bounds, and the
\* column of the documentation under its two configurations
RangeCalls ==
    {[values |-> v, config |-> Merge(lo, hi)] :
        v \in UNION {[1..n -> RangeEntries] : n \in 0..MaxRows}, lo \in OptMin, hi \in OptMax}
    \cup {[values |-> <<-2, 5, 7, 12>>, config |-> c] :
            c \in {[min_value |-> 0, max_value |-> 10], [max_value |-> 10]}}

\* the variables of the other specifications
CallFrame == <<ev, chk, ManagerVars, stats, mgr, uq, cc, rwb>>
NoCallFrame ==
    /\ ev = NoEval
    /\ chk = NoCheck
    /\ NoManager
    /\ stats = NoStats /\ mgr = NoMgr /\ uq = NoUq /\ cc = NoCc /\ rwb = NoRetry

InitRange ==
    /\ call \in {[state |-> "called", values |-> a.values, config |-> a.config,
                   result |-> None] : a \in RangeCalls}
    /\ NoCallFrame

CheckRange ==
    /\ call.state = "called"
    /\ call' = [call EXCEPT !.state = "returned",
                            !.result = Some(RangeCheck_check_column(call.values, call.config))]
    /\ UNCHANGED CallFrame

NextRange == CheckRange

SpecRange == InitRange /\ [][NextRange]_vars

(***************************************************************************)
(* Specification of the turnover check of one column.                      *)
(***************************************************************************)
TurnoverRows == {[date |-> d, id |-> i] : d \in 1..3, i \in {Null, 1, 2}}
\* thresholds in tenths: FAIL above 0.5, WARNING above 0.2
TurnoverConfigs == {<<>>, [thresholds |-> [absolute_critical |-> 5, absolute_warning |-> 2]]}
\* the IDs of the documentation: {1,2,3,4,5} on the previous date, {1,2,3,6,7} on
\* the current one
DocumentedRows ==
    [k \in 1..10 |-> IF k <= 5 THEN [date |-> 1, id |-> k]
                     ELSE IF k <= 8 THEN [date |-> 2, id |-> k - 5]
                     ELSE [date |-> 2, id |-> k - 3]]
TurnoverFrames == UNION {[1..n -> TurnoverRows] : n \in 0..MaxRows} \cup {DocumentedRows}

InitTurnover ==
    /\ call \in {[state |-> "called", rows |-> r, config |-> c, result |-> None] :
                  r \in TurnoverFrames, c \in TurnoverConfigs}
    /\ NoCallFrame

CheckTurnover ==
    /\ call.state = "called"
    /\ call' = [call EXCEPT !.state = "returned",
                            !.result = Some(TurnoverCheck_check_column(call.rows,
                                                                       call.config))]
    /\ UNCHANGED CallFrame

NextTurnover == CheckTurnover

SpecTurnover == InitTurnover /\ [][NextTurnover]_vars

(***************************************************************************)
(* Specification of the drift check of one column.                         *)
(***************************************************************************)
DriftPeriods == {[dist |-> d, n |-> n] : d \in 0..3, n \in {9, 10}}
DriftFrames == UNION {[1..k -> DriftPeriods] : k \in 0..MaxDates}
DriftConfigs ==
    {<<>>,
     [thresholds |-> [absolute_critical |-> 30, absolute_warning |-> 5]],
     [thresholds |-> [absolute_warning |-> 0]]}

InitDrift ==
    /\ call \in {[state |-> "called", periods |-> f, config |-> c, result |-> None] :
                  f \in DriftFrames, c \in DriftConfigs}
    /\ NoCallFrame

CheckDrift ==
    /\ call.state = "called"
    /\ call' = [call EXCEPT !.state = "returned",
                            !.result = Some(DriftCheck_check_column(call.periods,
                                                                    call.config))]
    /\ UNCHANGED CallFrame

NextDrift == CheckDrift

SpecDrift == InitDrift /\ [][NextDrift]_vars

(***************************************************************************)
(* Specification of the statistical check of one column.                   *)
(***************************************************************************)
MeasureNames == {"mean", "count", "skew", "unknown_measure"}
OptMeasures ==
    {<<>>} \cup {[measures |-> m] : m \in UNION {[1..k -> MeasureNames] : k \in 0..MaxMeasures}}
\* per-measure thresholds: none, an upper bound, a [min, max] range
OptMeasureThresholds ==
    {<<>>} \cup {[thresholds |-> [m \in {"mean", "count", "skew", "std"} |->
                                    [absolute_critical |-> t]]] :
                 t \in {Scalar(2), List(2, 3)}}
StatisticalCalls ==
    {[n |-> n, level |-> l, config |-> Merge(m, t)] :
        n \in 0..4, l \in 1..4, m \in OptMeasures, t \in OptMeasureThresholds}

InitStatistical ==
    /\ call \in {[state |-> "called", n |-> a.n, level |-> a.level, config |-> a.config,
                   result |-> None] : a \in StatisticalCalls}
    /\ NoCallFrame

CheckStatistical ==
    /\ call.state = "called"
    /\ call' = [call EXCEPT !.state = "returned",
                            !.result = Some(StatisticalCheck_check_column(
                                                call.n, call.level, call.config))]
    /\ UNCHANGED CallFrame

NextStatistical == CheckStatistical

SpecStatistical == InitStatistical /\ [][NextStatistical]_vars

\* ---------------------------------------------------------------------------
\* DataConnector.retry_with_backoff (connectors/base.py).
\* One call is followed step by step: rwb.attempt is the loop variable,
\* rwb.delay the local delay, rwb.last_exception the local last_exception.
\* rwb.log records what each call of func did and rwb.sleeps the argument of
\* each time.sleep, in order.
\* ---------------------------------------------------------------------------

DEFAULT_MAX_ATTEMPTS == 3
DEFAULT_BACKOFF == 2

FuncValues == {"v1", "v2"}
FuncExceptions == {"ConnectionError", "TimeoutError"}

RetryArguments ==
    {[max_attempts |-> m, backoff_factor |-> b] :
        m \in 0..MaxAttempts, b \in 1..MaxBackoff}

\* faulty variant: the wait is taken after every failed attempt
SleepsAgain_Always(attempt, max_attempts) == attempt < max_attempts

\* if attempt < max_attempts - 1
SleepsAgain(attempt, max_attempts) == attempt < max_attempts - 1

RetryFrame == <<ev, chk, ManagerVars, stats, mgr, uq, cc, call>>
NoRetryFrame ==
    /\ ev = NoEval /\ chk = NoCheck /\ NoManager
    /\ stats = NoStats /\ mgr = NoMgr /\ uq = NoUq /\ cc = NoCc /\ call = NoCall

InitRetry ==
    /\ rwb \in {[state |-> "running", max_attempts |-> a.max_attempts,
                  backoff_factor |-> a.backoff_factor, attempt |-> 0, delay |-> 1,
                  last_exception |-> None, log |-> <<>>, sleeps |-> <<>>,
                  result |-> None, raised |-> None] : a \in RetryArguments}
    /\ NoRetryFrame

\* try: return func()
FuncReturns ==
    /\ rwb.state = "running"
    /\ rwb.attempt < rwb.max_attempts
    /\ \E v \in FuncValues :
         rwb' = [rwb EXCEPT !.state = "returned",
                            !.log = Append(@, [ok |-> TRUE, v |-> v]),
                            !.result = Some(v)]
    /\ UNCHANGED RetryFrame

\* except Exception as e: ... and the next iteration of the loop
FuncRaises ==
    /\ rwb.state = "running"
    /\ rwb.attempt < rwb.max_attempts
    /\ \E e \in FuncExceptions :
         LET again == SleepsAgain(rwb.attempt, rwb.max_attempts) IN
         rwb' = [rwb EXCEPT !.log = Append(@, [ok |-> FALSE, v |-> e]),
                            !.last_exception = Some(e),
                            !.sleeps = IF again THEN Append(@, rwb.delay) ELSE @,
                            !.delay = IF again THEN @ * rwb.backoff_factor ELSE @,
                            !.attempt = @ + 1]
    /\ UNCHANGED RetryFrame

\* the statements after the loop
LoopEnds ==
    /\ rwb.state = "running"
    /\ rwb.attempt >= rwb.max_attempts
    /\ rwb' = [rwb EXCEPT !.state = "raised",
                          !.raised = IF IsNone(rwb.last_exception)
                                     THEN Some("RuntimeError")
                                     ELSE rwb.last_exception]
    /\ UNCHANGED RetryFrame

NextRetry == FuncReturns \/ FuncRaises \/ LoopEnds

SpecRetry == InitRetry /\ [][NextRetry]_vars

(***************************************************************************)
(* Claims about the threshold evaluator (SpecThreshold).                   *)
(***************************************************************************)
EvResult == TheValue(ev.result)
EvCompare == IF ev.threshold_type = "delta" THEN Abs(ev.value) ELSE ev.value
EvHasCritical == CriticalKey(ev.threshold_type) \in DOMAIN ev.thresholds
EvHasWarning == WarningKey(ev.threshold_type) \in DOMAIN ev.thresholds

\* C8: with both levels of the kind set to c (critical) and w (warning), the
\* evaluator returns FAIL/CRITICAL with exceeded_threshold c if v_cmp > c, else
\* WARNING/WARNING with exceeded_threshold w if v_cmp > w, else PASS/INFO with
\* exceeded_threshold null, v_cmp being abs(v) for kind delta and v for kind
\* absolute; the comparisons are strict and critical is tested first.
C8_ThresholdOrdering ==
    (ev.state = "returned" /\ EvHasCritical /\ EvHasWarning) =>
        LET c == ev.thresholds[CriticalKey(ev.threshold_type)]
            w == ev.thresholds[WarningKey(ev.threshold_type)]
        IN  IF EvCompare > c
            THEN EvResult = [status |-> "FAIL", severity |-> "CRITICAL",
                             exceeded_threshold |-> {c}]
            ELSE IF EvCompare > w
            THEN EvResult = [status |-> "WARNING", severity |-> "WARNING",
                             exceeded_threshold |-> {w}]
            ELSE EvResult = [status |-> "PASS", severity |-> "INFO",
                             exceeded_threshold |-> {}]

\* a delta evaluation of a negative value that exceeds a critical level lying below
\* the warning level: FAIL with the critical level reported
C8_Witness ==
    /\ ev.state = "returned"
    /\ ev.threshold_type = "delta"
    /\ ev.value < 0
    /\ EvHasCritical /\ EvHasWarning
    /\ ev.thresholds.delta_warning > ev.thresholds.delta_critical
    /\ Abs(ev.value) > ev.thresholds.delta_warning
    /\ EvResult.status = "FAIL"
    /\ EvResult.exceeded_threshold = {ev.thresholds.delta_critical}

\* C9: a level whose key is absent from thresholds never triggers: without the
\* critical key the result is never FAIL, without the warning key it is never
\* WARNING, and with neither key every value gives PASS/INFO with no exceeded
\* threshold; an absent key is not a threshold of 0.
C9_AbsentLevelNeverTriggers ==
    ev.state = "returned" =>
        /\ ~EvHasCritical => EvResult.status # "FAIL"
        /\ ~EvHasWarning => EvResult.status # "WARNING"
        /\ (~EvHasCritical /\ ~EvHasWarning) =>
               EvResult = [status |-> "PASS", severity |-> "INFO", exceeded_threshold |-> {}]

\* a value above 0 evaluated with neither level of its kind configured passes
C9_Witness ==
    /\ ev.state = "returned"
    /\ ~EvHasCritical /\ ~EvHasWarning
    /\ EvCompare > 0
    /\ EvResult.status = "PASS"

(***************************************************************************)
(* Claims about one check (SpecCheck).                                     *)
(***************************************************************************)
\* C3: run() returns its records and never raises, whatever per-column
\* configuration the check was given.
C3_RunNeverRaises == chk.state # "run_raised"

\* the configured columns that are not in the dataset, letter case apart
ConfigArg == chk.config_arg.v
DataColumns == {Lower(chk.df_arg.columns[i]) : i \in 1..Len(chk.df_arg.columns)}
BadColumns == {Lower(ConfigArg[i].key) : i \in 1..Len(ConfigArg)} \ DataColumns
TheBadColumn == CHOOSE c \in BadColumns : TRUE
OneBadColumn ==
    /\ chk.state \in {"returned", "run_raised"}
    /\ Len(ConfigArg) >= 2
    /\ Cardinality({i \in 1..Len(ConfigArg) : Lower(ConfigArg[i].key) \in BadColumns}) = 1
IsBad(item) == Lower(item.key) \in BadColumns
IsGood(item) == ~IsBad(item)
ForBadColumn(r) == r.column = Some(TheBadColumn)
ForOtherColumn(r) == ~ForBadColumn(r)
Rows == chk.results.rows
\* what run() returns when the bad column is not configured at all
WithoutBadColumn ==
    run(chk.class_name, chk.df, _normalize_config(SelectSeq(ConfigArg, IsGood)))
OthersUnaffected ==
    /\ ~WithoutBadColumn.raised
    /\ SelectSeq(Rows, ForOtherColumn) = WithoutBadColumn.results.rows
BadColumnEnabled == Enabled(TheValue(DictGet(chk.check_config, TheBadColumn)))

\* a configured column whose configuration is no dict
AnyColumnNotDict ==
    \E i \in 1..Len(chk.check_config) : ~chk.check_config[i].value.is_dict

Ran == chk.state \in {"returned", "run_raised"}
DistinctLowered ==
    \A i, j \in 1..Len(ConfigArg) : Lower(ConfigArg[i].key) = Lower(ConfigArg[j].key) => i = j
\* the enabled option of a configured column is true or absent
EnabledOrAbsent(item) == IF item.value.is_dict THEN Enabled(item.value) ELSE TRUE
\* the columns run() owes a record, in configuration order
ColumnsDue ==
    LET due == SelectSeq(ConfigArg, EnabledOrAbsent)
    IN  [k \in 1..Len(due) |-> Some(Lower(due[k].key))]
RecordsFollowConfiguration ==
    /\ chk.state = "returned"
    /\ [k \in 1..Len(Rows) |-> Rows[k].column] = ColumnsDue
    /\ \A k \in 1..Len(Rows) : Rows[k].status \in CheckStatus

\* C16: for a configuration whose column names are distinct after lower-casing,
\* run() returns exactly one record (PASS, WARNING, FAIL or ERROR) for each
\* configured column whose enabled option is true or absent and none for a column
\* with enabled == false, in configuration order; with every column disabled or
\* none configured the result is empty.
C16_OneRecordPerEnabledColumn ==
    (Ran /\ chk.config_arg.is_dict /\ DistinctLowered) => RecordsFollowConfiguration

\* the same for the configurations in which the configuration of every column is a
\* dict: this holds
C16_OneRecordPerEnabledColumn_Dicts ==
    (Ran /\ chk.config_arg.is_dict /\ DistinctLowered /\ ~AnyColumnNotDict) =>
        RecordsFollowConfiguration

\* a column whose configuration is no dict stands before an enabled column, and
\* run() raised
C16_Witness ==
    /\ chk.state = "run_raised"
    /\ DistinctLowered
    /\ Len(ConfigArg) = 2
    /\ ~ConfigArg[1].value.is_dict
    /\ ConfigArg[2].value.is_dict /\ Enabled(ConfigArg[2].value)

\* the configured columns, as the check holds them, whose filter_condition is a
\* predicate df.query cannot evaluate
FilterOf(item) == IF item.value.is_dict THEN Get(item.value.v, "filter_condition") ELSE None
HasInvalidFilter(item) == ~NoFilter(FilterOf(item)) /\ QueryRaises(TheValue(FilterOf(item)))
HasNoInvalidFilter(item) == ~HasInvalidFilter(item)
FilterItems == SelectSeq(chk.check_config, HasInvalidFilter)
OneBadFilter == Ran /\ Len(FilterItems) = 1
TheFilterColumn == FilterItems[1].key
TheFilterText == TheValue(FilterOf(FilterItems[1]))
FilterColumnEnabled == Enabled(FilterItems[1].value)
ForFilterColumn(r) == r.column = Some(TheFilterColumn)
NotForFilterColumn(r) == ~ForFilterColumn(r)
\* the text holds the piece
Carries(text, piece) == \E k \in 1..Len(text) : text[k] = piece
\* the records of the column are ERROR records whose text carries the filter
FilterErrorRecords ==
    \A i \in 1..Len(Rows) :
        ForFilterColumn(Rows[i]) =>
            /\ Rows[i].status = "ERROR"
            /\ Rows[i].error_type = Some("FilterError")
            /\ ~IsNone(Rows[i].error_message)
            /\ Carries(TheValue(Rows[i].error_message), TheFilterText)
\* what run() returns when the column with the invalid filter is not configured
WithoutFilterColumn ==
    run(chk.class_name, chk.df, SelectSeq(chk.check_config, HasNoInvalidFilter))
OthersEvaluatedNormally ==
    /\ ~WithoutFilterColumn.raised
    /\ SelectSeq(Rows, NotForFilterColumn) = WithoutFilterColumn.results.rows

LowerOption(config) ==
    IF "correlation_with" \in DOMAIN config.v
    THEN Dict([config.v EXCEPT !.correlation_with = Lower(config.v.correlation_with)])
    ELSE config
LowerConfig(items) ==
    [k \in 1..Len(items) |-> Item(Lower(items[k].key), LowerOption(items[k].value))]
InLowerCase ==
    CorrelationCheck_run(
        CorrelationCheck__init__(_normalize_dataframe(cc.df_arg), Lower(cc.date_col),
                                 Lower(cc.id_col), LowerConfig(cc.config_arg)))
Statuses(rows) == [k \in 1..Len(rows) |-> rows[k].status]
SameStatusesInLowerCase ==
    /\ ~InLowerCase.raised
    /\ Statuses(cc.results.rows) = Statuses(InLowerCase.results.rows)
CorrelationWith == Get(cc.config_arg[1].value.v, "correlation_with")
CrossColumn == Get(cc.config_arg[1].value.v, "correlation_type") = Some("cross_column")

\* C18: a correlation check gives the same statuses as the check of the same
\* dataset and configuration with every column name (dataset labels, date column,
\* identifier column, configuration key, correlation_with) written in lower case.
C18_ColumnNamesCaseInsensitive ==
    cc.state \in {"returned", "run_raised"} =>
        (cc.state = "returned" /\ SameStatusesInLowerCase)

\* the same without the cross-column checks whose correlation_with has a capital
\* letter: this holds
C18_CaseInsensitiveButCorrelationWith ==
    (/\ cc.state \in {"returned", "run_raised"}
     /\ ~(CrossColumn /\ CorrelationWith = Some("Qty"))) =>
        (cc.state = "returned" /\ SameStatusesInLowerCase)

\* correlation_with names the column Qty as the dataset labels it, and the check
\* gives an ERROR record where the lower-case input gives PASS or FAIL
C18_Witness ==
    /\ cc.state = "returned"
    /\ CrossColumn
    /\ CorrelationWith = Some("Qty")
    /\ cc.df_arg.columns[4] = "Qty"
    /\ Statuses(cc.results.rows) = <<"ERROR">>
    /\ Statuses(InLowerCase.results.rows) \in {<<"PASS">>, <<"FAIL">>}

\* the record of the configured column, its configuration and its correlation
CcRecord == cc.results.rows[1]
CcConfig == cc.config_arg[1].value.v
CcCritical ==
    IF "thresholds" \in DOMAIN CcConfig THEN CcConfig.thresholds.absolute_critical ELSE 8
CcCorrelation == IF CrossColumn THEN cc.df_arg.cross ELSE cc.df_arg.temporal
CcLabels == {Lower(cc.df_arg.columns[i]) : i \in 1..Len(cc.df_arg.columns)}
\* correlation_with is missing or names a column the dataset does not have
NoOtherColumn ==
    \/ IsNone(CorrelationWith)
    \/ Lower(TheValue(CorrelationWith)) \notin CcLabels
\* a temporal check with fewer than 2 dates or fewer than 2 matched IDs
Insufficient == ~CrossColumn /\ (cc.df_arg.n_dates < 2 \/ cc.df_arg.matched < 2)

\* C23: the correlation check is never WARNING; a record with a computed
\* correlation r is FAIL / CRITICAL with exceeded_threshold = critical exactly when
\* abs(r) < critical (0.8 when not configured) and PASS / INFO otherwise; a
\* cross_column check whose correlation_with is missing or names an absent column
\* is an ERROR record; a temporal check with fewer than 2 dates or fewer than 2
\* matched IDs is PASS with metric 1.0.
C23_InvertedPolarity ==
    cc.state = "returned" =>
        /\ Len(cc.results.rows) = 1
        /\ CcRecord.status # "WARNING"
        /\ (CcRecord.status # "ERROR" /\ ~Insufficient) =>
               /\ CcRecord.metric_value = Some(CcCorrelation)
               /\ IF Abs(CcCorrelation) < CcCritical
                  THEN /\ CcRecord.status = "FAIL"
                       /\ CcRecord.severity = "CRITICAL"
                       /\ CcRecord.exceeded_threshold = Some(CcCritical)
                  ELSE /\ CcRecord.status = "PASS"
                       /\ CcRecord.severity = "INFO"
        /\ (CrossColumn /\ NoOtherColumn) => CcRecord.status = "ERROR"
        /\ Insufficient =>
               /\ CcRecord.status = "PASS"
               /\ CcRecord.metric_value = Some(10)

\* a strong negative correlation of two columns under the default threshold: PASS
C23_Witness ==
    /\ cc.state = "returned"
    /\ CrossColumn
    /\ "thresholds" \notin DOMAIN CcConfig
    /\ CcRecord.metric_value = Some(-9)
    /\ CcRecord.status = "PASS"

(***************************************************************************)
(* Claims about the uniqueness metric (SpecUniqueness).                    *)
(***************************************************************************)
UqValues == {uq.values[i] : i \in 1..Len(uq.values)} \ {Null}
Occurrences(values, v) == Cardinality({i \in 1..Len(values) : values[i] = v})
Repeated(values) == {v \in UqValues : Occurrences(values, v) > 1}
RECURSIVE SumExtra(_, _)
SumExtra(values, S) ==
    IF S = {} THEN 0
    ELSE LET v == CHOOSE x \in S : TRUE
         IN  (Occurrences(values, v) - 1) + SumExtra(values, S \ {v})
\* the sum, over the values that occur more than once, of the occurrences but one
ExtraOccurrences(values) == SumExtra(values, Repeated(values))
UqStatus == TheValue(uq.evaluation).status
UqNulls == Occurrences(uq.values, Null)
MetricIsExtraOccurrences ==
    /\ uq.metric_value = Some(ExtraOccurrences(uq.values))
    /\ uq.thresholds = [absolute_critical |-> 0] =>
           UqStatus = (IF Repeated(uq.values) # {} THEN "FAIL" ELSE "PASS")

\* C19: the uniqueness metric of a column is the number of extra occurrences over
\* the values that occur more than once, and with absolute_critical = 0 the status
\* is FAIL when some value repeats and PASS when none does.
C19_MetricIsExtraOccurrences == uq.state = "returned" => MetricIsExtraOccurrences

\* the same for the columns with at most one missing entry: this holds
C19_MetricIsExtraOccurrences_OneNull ==
    (uq.state = "returned" /\ UqNulls <= 1) => MetricIsExtraOccurrences

\* the column of the documentation: 3 occurs three times, the metric is 2 and
\* absolute_critical = 0 gives FAIL
C19_Witness ==
    /\ uq.state = "returned"
    /\ uq.values = <<1, 2, 3, 3, 3, 4>>
    /\ uq.thresholds = [absolute_critical |-> 0]
    /\ uq.metric_value = Some(2)
    /\ UqStatus = "FAIL"

WithoutNulls == SelectSeq(uq.values, NotNull)

\* C20: the duplicate count of a column is the duplicate count of its entries that
\* are not null, and the status is the status of that count: null rows change
\* neither the metric nor the status.
C20_NullsExcluded ==
    uq.state = "returned" =>
        /\ uq.metric_value = Some(duplicate_count(WithoutNulls))
        /\ uq.evaluation = Some(_evaluate_threshold(duplicate_count(WithoutNulls),
                                                    uq.thresholds, "absolute"))

\* the column of the test with two missing entries: the metric is 3, one for the
\* second 10 and two for the missing entries, and not 1
C20_Witness ==
    /\ uq.state = "returned"
    /\ uq.values = <<10, Null, 10, Null, 20>>
    /\ duplicate_count(WithoutNulls) = 1
    /\ uq.metric_value = Some(3)

(***************************************************************************)
(* Claims about the range check (SpecRange).                               *)
(***************************************************************************)
Result == TheValue(call.result)
NonNull == dropna(call.values)
MinSet == "min_value" \in DOMAIN call.config
MaxSet == "max_value" \in DOMAIN call.config
OutOfRange(v) ==
    \/ MinSet /\ v < call.config.min_value
    \/ MaxSet /\ v > call.config.max_value
SomeOutOfRange == \E i \in 1..Len(NonNull) : OutOfRange(NonNull[i])
DocumentedColumn == call.values = <<-2, 5, 7, 12>>

\* C21: the range check is FAIL / CRITICAL exactly when some non-null value is
\* strictly below min_value (when set) or strictly above max_value (when set), and
\* PASS / INFO otherwise, never WARNING; a column without non-null values is PASS
\* with metric 0; [-2, 5, 7, 12] has out_of_range_count 2 under min 0 and max 10
\* and 1 under max 10 alone.
C21_RangeStatus ==
    call.state = "returned" =>
        /\ Result.evaluation.status = (IF SomeOutOfRange THEN "FAIL" ELSE "PASS")
        /\ Result.evaluation.severity = (IF SomeOutOfRange THEN "CRITICAL" ELSE "INFO")
        /\ NonNull = <<>> => Result.metric_value.num = 0
        /\ DocumentedColumn =>
               Result.additional_metrics.out_of_range_count = (IF MinSet THEN 2 ELSE 1)

\* a column with a missing entry, a value equal to each bound and one value above
\* max_value: FAIL
C21_Witness ==
    /\ call.state = "returned"
    /\ call.config = [min_value |-> 1, max_value |-> 2]
    /\ call.values = <<Null, 1, 2, 3>>
    /\ Result.evaluation.status = "FAIL"
    /\ Result.additional_metrics.out_of_range_count = 1

(***************************************************************************)
(* Claims about the turnover check (SpecTurnover).                         *)
(***************************************************************************)
DatesOf == {call.rows[i].date : i \in 1..Len(call.rows)}
MostRecent == CHOOSE d \in DatesOf : \A e \in DatesOf : e <= d
BeforeMostRecent == CHOOSE d \in DatesOf \ {MostRecent} : \A e \in DatesOf \ {MostRecent} : e <= d
NonNullIds(d) ==
    {i \in 1..7 : \E k \in 1..Len(call.rows) : call.rows[k] = [date |-> d, id |-> i]}
Current == NonNullIds(MostRecent)
Previous == NonNullIds(BeforeMostRecent)
Added == Current \ Previous
Dropped == Previous \ Current
Metric == Result.metric_value
\* the status the evaluator gives a rate num/den under thresholds in tenths
RateStatus(num, den, thresholds) ==
    IF "absolute_critical" \in DOMAIN thresholds /\ 10 * num > thresholds.absolute_critical * den
    THEN "FAIL"
    ELSE IF "absolute_warning" \in DOMAIN thresholds
            /\ 10 * num > thresholds.absolute_warning * den
    THEN "WARNING"
    ELSE "PASS"
ConfiguredThresholds == IF "thresholds" \in DOMAIN call.config THEN call.config.thresholds ELSE <<>>

\* C22: over the two most recent distinct dates the turnover metric is
\* (|added| + |dropped|) / |union| of the non-null IDs, 0 when the union is empty
\* or the two sets are equal, never above 1, and the status is that of the
\* threshold evaluator; with fewer than two distinct dates the record is PASS
\* with metric 0; previous {1,2,3,4,5} and current {1,2,3,6,7} give 4/7.
C22_TurnoverMetric ==
    call.state = "returned" =>
        IF Cardinality(DatesOf) < 2
        THEN Result.evaluation.status = "PASS" /\ Metric.num = 0
        ELSE /\ Metric.num * Cardinality(Previous \cup Current)
                    = (Cardinality(Added) + Cardinality(Dropped)) * Metric.den
             /\ Metric.den > 0
             /\ (Previous \cup Current = {} \/ Previous = Current) => Metric.num = 0
             /\ Metric.num <= Metric.den
             /\ Result.evaluation.status = RateStatus(Metric.num, Metric.den,
                                                      ConfiguredThresholds)
             /\ call.rows = DocumentedRows => Metric = Fraction(4, 7)

\* three dates, the ID of the earliest date is gone on the two most recent ones,
\* which differ in one ID of two: the rate is 1/2 and gives a WARNING
C22_Witness ==
    /\ call.state = "returned"
    /\ call.rows = <<[date |-> 1, id |-> 2], [date |-> 2, id |-> 1],
                     [date |-> 3, id |-> 1], [date |-> 3, id |-> 2]>>
    /\ "thresholds" \in DOMAIN call.config
    /\ Metric = Fraction(1, 2)
    /\ Result.evaluation.status = "WARNING"

(***************************************************************************)
(* Claims about the drift check (SpecDrift).                               *)
(***************************************************************************)
Earliest == call.periods[1]
Latest == call.periods[Len(call.periods)]
TooLittle ==
    \/ Len(call.periods) < 2
    \/ Earliest.n < 10
    \/ Latest.n < 10
DriftThresholds == IF "thresholds" \in DOMAIN call.config THEN call.config.thresholds ELSE <<>>
DriftCritical ==
    IF "absolute_critical" \in DOMAIN DriftThresholds
    THEN DriftThresholds.absolute_critical ELSE 25
DriftWarning ==
    IF "absolute_warning" \in DOMAIN DriftThresholds
    THEN DriftThresholds.absolute_warning ELSE 10
\* the PSI of the most recent date against the earliest one
ThePsi == IF Earliest.dist = 0 THEN 0 ELSE PsiSum(Earliest, Latest)

\* C24: the drift check compares the earliest date with the most recent one; with
\* fewer than 2 distinct dates or fewer than 10 non-null values in one of the two
\* periods the record is PASS with metric 0; otherwise the metric is the PSI, 0
\* when the bins collapse, and the status is FAIL if psi >= critical, else WARNING
\* if psi >= warning, else PASS, critical being 0.25 and warning 0.10 when not
\* configured.
C24_DriftStatus ==
    call.state = "returned" =>
        IF TooLittle
        THEN Result.evaluation.status = "PASS" /\ Result.metric_value = 0
        ELSE /\ Result.metric_value = ThePsi
             /\ Result.evaluation.status =
                    (IF ThePsi >= DriftCritical THEN "FAIL"
                     ELSE IF ThePsi >= DriftWarning THEN "WARNING"
                     ELSE "PASS")

\* three dates, and the PSI of the last against the first is the default critical
\* threshold itself: FAIL
C24_Witness ==
    /\ call.state = "returned"
    /\ call.config = <<>>
    /\ Len(call.periods) = 3
    /\ ~TooLittle
    /\ Result.metric_value = 25
    /\ Result.evaluation.status = "FAIL"

(***************************************************************************)
(* Claims about the statistical check (SpecStatistical).                   *)
(***************************************************************************)
KnownMeasures == {"mean", "median", "std", "min", "max", "count", "skew", "kurtosis"}
IsKnownMeasure(m) == m \in KnownMeasures
Requested == IF "measures" \in DOMAIN call.config THEN call.config.measures
             ELSE <<"mean", "std", "median">>
RequestedKnown == SelectSeq(Requested, IsKnownMeasure)
\* absolute_critical of the measure, if configured
CriticalOf(m) ==
    IF "thresholds" \in DOMAIN call.config /\ m \in DOMAIN call.config.thresholds
    THEN Some(call.config.thresholds[m].absolute_critical) ELSE None
ShouldFail(m, value) ==
    /\ ~IsNone(CriticalOf(m))
    /\ LET c == TheValue(CriticalOf(m))
       IN  IF c.is_list THEN value < c.v[1] \/ value > c.v[2] ELSE value > c.v[1]

\* C25: for a column with a non-null value the statistical check returns one record
\* per requested measure that it knows, in the order requested, and none for any
\* other name; a column without non-null values yields no record; a record is FAIL
\* when absolute_critical is a number and the value exceeds it, or a list
\* [min, max] and the value is below min or above max, and PASS otherwise.
C25_OneRecordPerKnownMeasure ==
    call.state = "returned" =>
        IF call.n = 0 THEN Result = <<>>
        ELSE /\ [k \in 1..Len(Result) |-> Result[k].measure] = RequestedKnown
             /\ \A k \in 1..Len(Result) :
                    Result[k].status =
                        (IF ShouldFail(Result[k].measure, Result[k].metric_value)
                         THEN "FAIL" ELSE "PASS")

\* the unknown name after the mean is skipped, and the mean equals the upper bound
\* of its range and passes
C25_Witness ==
    /\ call.state = "returned"
    /\ Requested = <<"mean", "unknown_measure">>
    /\ CriticalOf("mean") = Some(List(2, 3))
    /\ Len(Result) = 1
    /\ Result[1].metric_value = 3
    /\ Result[1].status = "PASS"

(***************************************************************************)
(* Claims about the check manager (Spec).                                  *)
(***************************************************************************)
SummaryCounts == {"total", "passed", "warnings", "failed", "errors"}
Aggregated(m) == TheValue(returned[m])
Outcome(m, i) == TheValue(outcome[m][i])
Known(i) == checks_config[i].key \in DOMAIN CheckRegistry

\* the manager has dealt with type i: the loop went past it, or its future was yielded
Handled(m, i) == IF m = "seq" THEN i <= idx["seq"] ELSE fut[i] = "yielded"

\* the records type i hands back when it is run on its own
OwnRecords(i) ==
    ToDictRecords(run_single_check(df, checks_config[i].key, checks_config[i].value).results)
TypeRaises(i) == run_single_check(df, checks_config[i].key, checks_config[i].value).raised

Count(list, r) == Cardinality({k \in 1..Len(list) : list[k] = r})
RECURSIVE SumLen(_, _)
SumLen(f, n) == IF n = 0 THEN 0 ELSE Len(f[n]) + SumLen(f, n - 1)

\* C1: for the same dataset, configuration and metadata, once run_all_checks and
\* run_all_checks_parallel have both returned, their summaries agree on total,
\* passed, warnings, failed and errors, and their results_by_type have the same
\* keys with the same number of records under each key.
C1_SeqParEquivalent ==
    (pc["seq"] = "returned" /\ pc["par"] = "returned") =>
        LET a == Aggregated("seq")
            b == Aggregated("par")
        IN  /\ \A k \in SummaryCounts : a.summary[k] = b.summary[k]
            /\ DOMAIN a.results_by_type = DOMAIN b.results_by_type
            /\ \A t \in DOMAIN a.results_by_type :
                   Len(a.results_by_type[t]) = Len(b.results_by_type[t])

\* both entry points returned for three configured types, one of which failed as a
\* whole, and the parallel one collected the records in another order
C1_Witness ==
    /\ pc["seq"] = "returned" /\ pc["par"] = "returned"
    /\ N = 3
    /\ max_workers >= 2
    /\ check_results["seq"] # check_results["par"]
    /\ Aggregated("par").summary.errors >= 1
    /\ Aggregated("par").summary.total >= 3

\* C2: in both entry points, a check type whose instantiation or run raises puts
\* exactly one record into check_results, with status ERROR, severity ERROR,
\* check_type the configured name and column null; the call goes on, and every
\* other configured type runs once and contributes the records it gives on its own.
C2_FailureIsolated ==
    \A m \in Managers :
        /\ \A i \in Types :
               (Handled(m, i) /\ Outcome(m, i).raised) =>
                   /\ Len(appended[m][i]) = 1
                   /\ appended[m][i][1].status = "ERROR"
                   /\ appended[m][i][1].severity = "ERROR"
                   /\ appended[m][i][1].check_type = checks_config[i].key
                   /\ appended[m][i][1].column = None
                   /\ Count(check_results[m], appended[m][i][1]) = 1
                   /\ pc[m] # "raised"
        /\ pc[m] = "returned" =>
               \A j \in Types :
                   /\ starts[m][j] = 1
                   /\ ~Outcome(m, j).raised => appended[m][j] = OwnRecords(j)

\* the parallel entry point returned after a type failed as a whole and was the
\* first to be collected, while another type contributed two records
C2_Witness ==
    /\ pc["par"] = "returned"
    /\ \E i, j \in Types :
           /\ i # j
           /\ Outcome("par", i).raised
           /\ check_results["par"][1] = _handle_check_error(checks_config[i].key)
           /\ i > j
           /\ Len(appended["par"][j]) = 2
    /\ pc["seq"] = "returned"
    /\ \E i \in Types : Outcome("seq", i).raised

\* what type i is due to leave in check_results
Expected(i) ==
    IF TypeRaises(i) THEN <<_handle_check_error(checks_config[i].key)>> ELSE OwnRecords(i)

\* C5: in run_all_checks_parallel no worker writes check_results, only the calling
\* thread does; when the call returns, check_results holds each record returned by
\* each configured type exactly once (and one record per failed type), none lost
\* and none duplicated.
C5_OnlyCallerWrites ==
    /\ writer # "worker"
    /\ pc["par"] = "returned" =>
           /\ \A i \in Types : \A k \in 1..Len(Expected(i)) :
                  Count(check_results["par"], Expected(i)[k]) = 1
           /\ Len(check_results["par"]) = SumLen([i \in Types |-> Expected(i)], N)

\* two workers ran at once, and the call returned with records of two types
C5_Witness ==
    /\ pc["par"] = "returned"
    /\ max_workers = 2
    /\ writer = "main"
    /\ Cardinality({i \in Types : Len(appended["par"][i]) >= 1}) >= 2
    /\ Len(check_results["par"]) >= 3

Lifecycle(m, i) ==
    IF Handled(m, i)
    THEN IF Outcome(m, i).raised THEN "ISOLATED_FAILURE" ELSE "COMPLETED"
    ELSE IF m = "seq"
         THEN IF pc["seq"] = "running" /\ i = idx["seq"] + 1 THEN "RUNNING" ELSE "PENDING"
         ELSE IF fut[i] \in {"running", "finished"} THEN "RUNNING" ELSE "PENDING"

LifecycleSteps ==
    {<<"PENDING", "RUNNING">>, <<"RUNNING", "COMPLETED">>, <<"RUNNING", "ISOLATED_FAILURE">>}

LifecycleState ==
    \A m \in Managers : \A i \in Types :
        /\ starts[m][i] <= 1
        /\ (starts[m][i] = 0) <=> (Lifecycle(m, i) = "PENDING")
        /\ Lifecycle(m, i) \in {"PENDING", "RUNNING"} => appended[m][i] = <<>>
        /\ Lifecycle(m, i) = "COMPLETED" =>
               /\ appended[m][i] = ToDictRecords(Outcome(m, i).results)
               /\ \A k \in 1..Len(appended[m][i]) :
                      appended[m][i][k] # _handle_check_error(checks_config[i].key)
        /\ Lifecycle(m, i) = "ISOLATED_FAILURE" =>
               appended[m][i] = <<_handle_check_error(checks_config[i].key)>>
        /\ pc[m] = "returned" => Lifecycle(m, i) \in {"COMPLETED", "ISOLATED_FAILURE"}

LifecycleStep ==
    \A m \in Managers : \A i \in Types :
        \/ Lifecycle(m, i)' = Lifecycle(m, i)
        \/ <<Lifecycle(m, i), Lifecycle(m, i)'>> \in LifecycleSteps

\* C6: within one call every configured type goes PENDING -> RUNNING -> COMPLETED
\* or ISOLATED_FAILURE, by these steps only; it is started at most once and never
\* again after it failed; before it is terminal it has contributed nothing, as
\* COMPLETED it has contributed its result records (possibly none), as
\* ISOLATED_FAILURE exactly one ERROR record, never both and never neither; the
\* call returns only with every type terminal.
C6_Lifecycle == []LifecycleState /\ [][LifecycleStep]_vars

\* a call returned with one type COMPLETED with records and another ISOLATED_FAILURE
C6_Witness ==
    \E m \in Managers :
        /\ pc[m] = "returned"
        /\ \E i, j \in Types :
               /\ Lifecycle(m, i) = "COMPLETED" /\ Len(appended[m][i]) >= 1
               /\ Lifecycle(m, j) = "ISOLATED_FAILURE"
               /\ starts[m][i] = 1 /\ starts[m][j] = 1

AggregatedKeys == {"metadata", "summary", "results", "results_by_type"}

WellFormedReturn ==
    \A m \in Managers :
        /\ pc[m] # "raised"
        /\ pc[m] = "returned" =>
               /\ returned[m] # None
               /\ DOMAIN Aggregated(m) = AggregatedKeys
               /\ \A i \in Types : Handled(m, i)
               /\ Aggregated(m).summary.total = Len(check_results[m])
        /\ pc[m] # "returned" => returned[m] = None

\* C7: a call of either entry point never raises, and with the calling thread and
\* the pool's workers kept running it ends by returning; it returns only after
\* every configured type is terminal, and what it returns has exactly the keys
\* metadata, summary, results, results_by_type.
C7_TerminatesWellFormed ==
    /\ []WellFormedReturn
    /\ <>(pc["seq"] = "returned" /\ pc["par"] = "returned")

\* both calls returned although every configured type failed as a whole
C7_Witness ==
    /\ pc["seq"] = "returned" /\ pc["par"] = "returned"
    /\ N >= 2
    /\ \A i \in Types : Known(i) /\ Outcome("par", i).raised /\ Outcome("seq", i).raised
    /\ Aggregated("par").summary.errors = N

\* C10: a configured name that is not in the registry is skipped: it adds no
\* record, not even an ERROR record, it does not fail, and the known types
\* configured with it contribute as they do on their own.
C10_UnknownTypeSkipped ==
    \A m \in Managers :
        /\ \A i \in Types :
               ~Known(i) =>
                   /\ appended[m][i] = <<>>
                   /\ \A k \in 1..Len(check_results[m]) :
                          check_results[m][k].check_type # checks_config[i].key
                   /\ Handled(m, i) => ~Outcome(m, i).raised
        /\ pc[m] = "returned" =>
               /\ \A j \in Types : Known(j) => appended[m][j] = Expected(j)
               /\ Len(check_results[m]) =
                      SumLen([j \in Types |-> IF Known(j) THEN Expected(j) ELSE <<>>], N)

\* an unknown name configured between two known types that both left records
C10_Witness ==
    \E m \in Managers :
        /\ pc[m] = "returned"
        /\ N = 3
        /\ ~Known(2) /\ Known(1) /\ Known(3)
        /\ Len(appended[m][1]) >= 1 /\ Len(appended[m][3]) >= 1
        /\ appended[m][2] = <<>>

(***************************************************************************)
(* Claims about the fields of the records (Spec).                          *)
(***************************************************************************)
InvariantFields ==
    {"check_type", "column", "date", "metric_value", "status", "severity",
     "exceeded_threshold", "additional_metrics", "timestamp"}
EchoedFields == {"thresholds", "description", "filter_applied", "column_alias"}
CommonFields == {"check_type", "column", "status", "severity"}
ReturnedRecords(m) == IF pc[m] = "returned" THEN check_results[m] ELSE <<>>
EveryRecordCarries(fields) ==
    \A m \in Managers :
        \A i \in 1..Len(ReturnedRecords(m)) : fields \subseteq ReturnedRecords(m)[i].keys

\* C26: every record in the results a run returned, ERROR records built by a check
\* or by the manager included, carries the invariant fields and the echoed
\* configuration fields.
C26_RecordsCarryAllFields == EveryRecordCarries(InvariantFields \cup EchoedFields)

\* the fields every record does carry are check_type, column, status and severity:
\* this holds
C26_RecordsCarryCommonFields == EveryRecordCarries(CommonFields)

\* a run returned a record the manager built for a failed check type, which has
\* neither date nor metric_value
C26_Witness ==
    /\ pc["seq"] = "returned"
    /\ \E i \in 1..Len(check_results["seq"]) :
           /\ check_results["seq"][i].keys = CheckErrorKeys
           /\ check_results["seq"][i].status = "ERROR"

\* the registry names configured, and the records a run added for the i-th of them
ConfiguredTypeNames == {checks_config[i].key : i \in Types}
NamedAsConfigured(m, i) ==
    \A k \in 1..Len(appended[m][i]) : appended[m][i][k].check_type = checks_config[i].key
GroupKeysConfigured(m) ==
    pc[m] = "returned" => DOMAIN Aggregated(m).results_by_type \subseteq ConfiguredTypeNames

\* C27: every record a run adds for a check type configured under the registry name
\* N has check_type N, whether the check built it or the manager did after a
\* failure; hence the keys of results_by_type are among the configured names.
C27_CheckTypeIsRegistryName ==
    \A m \in Managers :
        /\ \A i \in Types : NamedAsConfigured(m, i)
        /\ GroupKeysConfigured(m)

\* the same for the types whose registry name has no underscore: this holds
C27_CheckTypeIsRegistryName_OneWord ==
    \A m \in Managers :
        \A i \in Types : checks_config[i].key # "value_spike" => NamedAsConfigured(m, i)

\* a run returned with a record of the type configured as value_spike, grouped
\* under the key valuespike
C27_Witness ==
    /\ pc["seq"] = "returned"
    /\ \E i \in Types :
           /\ checks_config[i].key = "value_spike"
           /\ appended["seq"][i] # <<>>
           /\ appended["seq"][i][1].check_type = "valuespike"
    /\ "valuespike" \in DOMAIN Aggregated("seq").results_by_type

Given == stats.check_results
WithStatus(status) == {i \in 1..Len(Given) : Given[i].status = status}
TheSummary == TheValue(stats.summary)

\* C11: get_summary_statistics() returns total = the number of accumulated
\* records, passed/warnings/failed/errors = the number of records with status
\* PASS/WARNING/FAIL/ERROR and pass_rate = passed/total*100 rounded to one decimal
\* (the tenth nearest to the quotient); on the empty list it returns six zeros.
C11_SummaryCounts ==
    (stats.state = "given" /\ stats.summary # None) =>
        /\ TheSummary.total = Len(Given)
        /\ TheSummary.passed = Cardinality(WithStatus("PASS"))
        /\ TheSummary.warnings = Cardinality(WithStatus("WARNING"))
        /\ TheSummary.failed = Cardinality(WithStatus("FAIL"))
        /\ TheSummary.errors = Cardinality(WithStatus("ERROR"))
        /\ Len(Given) = 0 => TheSummary.pass_rate = 0
        /\ Len(Given) > 0 =>
               2 * Abs(TheSummary.pass_rate * Len(Given)
                       - 1000 * Cardinality(WithStatus("PASS"))) <= Len(Given)

\* two of three records passed: the rate is 66.7
C11_Witness ==
    /\ stats.state = "given" /\ stats.summary # None
    /\ Len(Given) = 3
    /\ TheSummary.passed = 2
    /\ TheSummary.pass_rate = 667
    /\ TheSummary.errors = 1

\* list is made of the records of the whole list at the places of indices, in order
IsSelection(list, indices) ==
    /\ Len(list) = Cardinality(indices)
    /\ \A k \in 1..Len(list) :
           \E i \in indices :
               /\ list[k] = Given[i]
               /\ Cardinality({j \in indices : j < i}) = k - 1

\* C14: get_failed_checks() returns exactly the accumulated records with status
\* FAIL and get_warning_checks() exactly those with status WARNING, each in
\* insertion order; the two lists have no record in common, hold no PASS or ERROR
\* record, and are as long as summary.failed and summary.warnings say.
C14_FailedAndWarningFilters ==
    stats.state = "given" =>
        /\ stats.failed # None => IsSelection(TheValue(stats.failed), WithStatus("FAIL"))
        /\ stats.warnings # None =>
               IsSelection(TheValue(stats.warnings), WithStatus("WARNING"))
        /\ (stats.failed # None /\ stats.warnings # None) =>
               \A i \in 1..Len(TheValue(stats.failed)) :
                   \A j \in 1..Len(TheValue(stats.warnings)) :
                       TheValue(stats.failed)[i] # TheValue(stats.warnings)[j]
        /\ (stats.failed # None /\ stats.summary # None) =>
               Len(TheValue(stats.failed)) = TheSummary.failed
        /\ (stats.warnings # None /\ stats.summary # None) =>
               Len(TheValue(stats.warnings)) = TheSummary.warnings

\* two different FAIL records around a WARNING record, all three methods called
C14_Witness ==
    /\ stats.state = "given"
    /\ stats.failed # None /\ stats.warnings # None /\ stats.summary # None
    /\ Len(Given) = 3
    /\ Given[1].status = "FAIL" /\ Given[2].status = "WARNING" /\ Given[3].status = "FAIL"
    /\ Given[1] # Given[3]
    /\ TheValue(stats.failed) = <<Given[1], Given[3]>>
    /\ TheValue(stats.warnings) = <<Given[2]>>

(***************************************************************************)
(* Claims about a manager over a sequence of calls (SpecOps).              *)
(***************************************************************************)
Accumulated == mgr.check_results
LastValue == TheValue(mgr.last).value
\* the list a 'results' entry refers to
Deref(ref) == IF ref.list_of = "mgr" THEN mgr.check_results ELSE check_results[ref.list_of]
OfTypeAt(t) == {i \in 1..Len(Accumulated) : Accumulated[i].check_type = t}

\* group holds the accumulated records at the places of indices, in that order
IsGroup(group, indices) ==
    /\ Len(group) = Cardinality(indices)
    /\ \A k \in 1..Len(group) :
           \E i \in indices :
               /\ group[k] = Accumulated[i]
               /\ Cardinality({j \in indices : j < i}) = k - 1

\* C12: whatever calls were made before, what aggregate_results() returns reflects
\* the accumulated list: results is the list, summary.total its length, the four
\* status counts add up to total, and results_by_type has one key per check_type
\* in the list, holding the records of that check_type in insertion order, so that
\* every record is in exactly one group.
C12_AggregateReflectsList ==
    mgr.last # None =>
        /\ DOMAIN LastValue = {"metadata", "summary", "results", "results_by_type"}
        /\ Deref(LastValue.results) = Accumulated
        /\ LastValue.summary.total = Len(Accumulated)
        /\ LastValue.summary.passed + LastValue.summary.warnings
               + LastValue.summary.failed + LastValue.summary.errors = Len(Accumulated)
        /\ DOMAIN LastValue.results_by_type =
               {Accumulated[i].check_type : i \in 1..Len(Accumulated)}
        /\ \A t \in DOMAIN LastValue.results_by_type :
               IsGroup(LastValue.results_by_type[t], OfTypeAt(t))

\* aggregate_results() called after a parallel run that left records of two types,
\* the two records of one type around the record of the other
C12_Witness ==
    /\ mgr.last # None
    /\ TheValue(mgr.last).op = "aggregate_results"
    /\ Len(mgr.runs) >= 1
    /\ Cardinality(DOMAIN LastValue.results_by_type) = 2
    /\ \E t \in DOMAIN LastValue.results_by_type :
           /\ Len(LastValue.results_by_type[t]) >= 2
           /\ \E i, j, k \in 1..Len(Accumulated) :
                  /\ i < j /\ j < k
                  /\ Accumulated[i].check_type = t
                  /\ Accumulated[j].check_type # t
                  /\ Accumulated[k].check_type = t

\* the counts of the summary and the number of records under each key
Counts(agg) ==
    [summary |-> [k \in SummaryCounts |-> agg.summary[k]],
     by_type |-> [t \in DOMAIN agg.results_by_type |-> Len(agg.results_by_type[t])]]

\* C13: a later run on the same manager, dataset and configuration unchanged,
\* returns the summary counts and the per-key counts of the first run.
C13_NoStateBetweenRuns ==
    \A k \in 1..Len(mgr.runs) : Counts(mgr.runs[k]) = Counts(mgr.runs[1])

\* a second run returned although the first one had left records
C13_Witness ==
    /\ Len(mgr.runs) = 2
    /\ mgr.runs[1].summary.total >= 1

(***************************************************************************)
(* Claims about the accumulated records and the returned values (SpecOps). *)
(***************************************************************************)
SeverityOf(status) ==
    CASE status = "PASS" -> "INFO"
      [] status = "WARNING" -> "WARNING"
      [] status = "FAIL" -> "CRITICAL"
      [] status = "ERROR" -> "ERROR"
Paired(r) ==
    /\ r.status \in CheckStatus
    /\ r.severity \in Severity
    /\ r.severity = SeverityOf(r.status)
    /\ r.status = "PASS" => r.exceeded_threshold = None

RECURSIVE GroupSizes(_, _)
GroupSizes(groups, S) ==
    IF S = {} THEN 0
    ELSE LET t == CHOOSE x \in S : TRUE
         IN  Len(groups[t]) + GroupSizes(groups, S \ {t})
\* a returned value still agrees with itself
SelfConsistent(v) ==
    /\ Len(Deref(v.results)) = v.summary.total
    /\ Len(Deref(v.results)) = GroupSizes(v.results_by_type, DOMAIN v.results_by_type)

\* C29: a value a run returned is not changed by a later operation on the same
\* manager: in every reachable state each value returned so far has len(results)
\* equal to its own summary.total and to the sum of the sizes of its own groups.
C29_ReturnedValueUnchanged ==
    mgr.state \in {"constructed", "used"} =>
        \A k \in 1..Len(mgr.runs) : SelfConsistent(mgr.runs[k])

\* the value a run returns agrees with itself when it is returned: this holds
C29_ReturnedValueConsistentAtReturn ==
    (mgr.state = "used" /\ Len(mgr.runs) > 0) => SelfConsistent(mgr.runs[Len(mgr.runs)])

\* the first run returned a value with records, and the second run appended to the
\* list that value holds as results
C29_Witness ==
    /\ mgr.state = "used"
    /\ Len(mgr.runs) = 2
    /\ mgr.runs[1].summary.total > 0
    /\ Len(Deref(mgr.runs[1].results)) > mgr.runs[1].summary.total


\* ---------------------------------------------------------------------------
\* Claims about retry_with_backoff (SpecRetry).
\* ---------------------------------------------------------------------------

RECURSIVE Pow(_, _)
Pow(b, n) == IF n = 0 THEN 1 ELSE b * Pow(b, n - 1)

CallFailed(k) == ~rwb.log[k].ok
FuncCalls == Len(rwb.log)

\* the waits taken so far are 1, backoff_factor, backoff_factor^2, ...
DelaysGeometric ==
    \A i \in 1..Len(rwb.sleeps) : rwb.sleeps[i] = Pow(rwb.backoff_factor, i - 1)

\* every wait taken so far was followed, or is about to be followed, by a call
WaitsOnlyBetweenAttempts ==
    IF rwb.state = "running" /\ rwb.attempt < rwb.max_attempts
    THEN Len(rwb.sleeps) = FuncCalls
    ELSE FuncCalls > 0 => Len(rwb.sleeps) = FuncCalls - 1

\* C30: for max_attempts >= 1, retry_with_backoff calls func at most
\* max_attempts times; when it returns, the value is that of the first call
\* that succeeded, which is the last call made; when it raises, all
\* max_attempts calls failed and the exception is that of the last call; the
\* waits are 1, backoff_factor, backoff_factor^2, ..., one between each two
\* consecutive calls and none after the final failed call.
C30_RetryWithBackoff ==
    (rwb.state # "none" /\ rwb.max_attempts >= 1) =>
        /\ FuncCalls <= rwb.max_attempts
        /\ \A k \in 1..(FuncCalls - 1) : CallFailed(k)
        /\ rwb.state = "returned" =>
              /\ FuncCalls >= 1
              /\ rwb.log[FuncCalls].ok
              /\ rwb.result = Some(rwb.log[FuncCalls].v)
        /\ rwb.state = "raised" =>
              /\ FuncCalls = rwb.max_attempts
              /\ CallFailed(FuncCalls)
              /\ rwb.raised = Some(rwb.log[FuncCalls].v)
        /\ rwb.state = "running" => \A k \in 1..FuncCalls : CallFailed(k)
        /\ DelaysGeometric
        /\ WaitsOnlyBetweenAttempts

\* this holds: once the call has returned or raised, func is not called again
C30_NoCallAfterTheEnd ==
    [][rwb.state \in {"returned", "raised"} => rwb' = rwb]_vars

\* all the calls of a default call fail: two waits, of 1 and 2 seconds
C30_Witness ==
    /\ rwb.state = "raised"
    /\ rwb.max_attempts = DEFAULT_MAX_ATTEMPTS
    /\ rwb.backoff_factor = DEFAULT_BACKOFF
    /\ rwb.sleeps = <<1, 2>>
    /\ rwb.raised = Some("TimeoutError")
    /\ rwb.log[1].v = "ConnectionError"

====
